---- MODULE Spec2Model ----
(***************************************************************************)
(* Model of the dao workflow engine: the append-only journal and its       *)
(* snapshot files (dao-core/src/persistence.rs), the replay projection,    *)
(* and the workflow driver of the CLI (dao-cli/src/main.rs) with process   *)
(* kills at every I/O boundary and inside every write.                     *)
(***************************************************************************)
EXTENDS Integers, Sequences, FiniteSets, TLC

VARIABLES
    file,        \* .dao/workflow-events.jsonl: sequence of lines
    snapStore,   \* .dao/workflow-snapshot.json (ShellEventStore::snapshot_path)
    snapCli,     \* .dao/snapshot.json (snapshot_path of the CLI)
    pc,          \* position of the driver process ("idle": no process)
    ops,         \* journal / snapshot writes the current handler still has to do
    proc,        \* locals of the driver process
    appended,    \* history: every record for which ShellEventStore::append returned
    nprocs,      \* history: number of driver processes launched so far
    nruns,       \* history: number of `run` commands launched so far
    ntorn,       \* history: number of writes cut by a kill so far
    scope,       \* the part of the input space the behaviour explores (fixed by Init)
    shell,       \* ShellState: the fields the reducer's approval, artifact and journey arms use
    last,        \* history: the action last given to reduce
    nacts,       \* history: number of actions given to reduce so far
    peval        \* a ReviewPolicy, the Signals given to it, and the PolicyDecision returned

\* the variables of the driver and its files
dvars == <<file, snapStore, snapCli, pc, ops, proc, appended, nprocs, nruns, ntorn,
           scope>>

\* the variables of the reducer
rvars == <<shell, last, nacts>>

\* the variables of a policy evaluation
pvars == <<peval>>

vars == <<dvars, rvars, pvars>>

----------------------------------------------------------------------------
\* Bounds of the model

MaxProcs == 2

MaxRuns == 2

MaxTorn == 1

----------------------------------------------------------------------------
\* Option<T>: None is the empty sequence, Some(x) is <<x>>

None == <<>>

Some(x) == <<x>>

IsSome(o) == o # <<>>

Unwrap(o) == o[1]

Max2(a, b) == IF a >= b THEN a ELSE b

----------------------------------------------------------------------------
\* Static catalog: workflow template, tool registry, tiers

TemplateSteps == <<"scan_repo", "generate_plan", "compute_diff", "verify">>

NumSteps == Len(TemplateSteps)

DiffStepIndex == 2

RiskClass(tool) ==
    CASE tool = "scan_repo" -> "read-only"
      [] tool = "generate_plan" -> "read-only"
      [] tool = "compute_diff" -> "patch-only"
      [] tool = "verify" -> "execution"

MinTier(tool) ==
    CASE tool = "scan_repo" -> "strict"
      [] tool = "generate_plan" -> "strict"
      [] tool = "compute_diff" -> "balanced"
      [] tool = "verify" -> "balanced"

tier_rank(tier) ==
    CASE tier = "strict" -> 0
      [] tier = "balanced" -> 1
      [] tier = "permissive" -> 2

tier_satisfies(current, min_tier) == tier_rank(current) >= tier_rank(min_tier)

\* the table with Strict asking approval for Destructive instead of denying it
policy_requirement_for_risk_StrictAsks(tier, risk) ==
    CASE risk = "read-only" -> "allow"
      [] tier = "strict" -> "require_approval"
      [] tier = "balanced" ->
            IF risk \in {"execution", "destructive"} THEN "require_approval" ELSE "allow"
      [] tier = "permissive" ->
            IF risk = "destructive" THEN "require_approval" ELSE "allow"

policy_requirement_for_risk(tier, risk) ==
    CASE tier = "strict" ->
            (CASE risk = "read-only" -> "allow"
               [] risk \in {"patch-only", "refactor", "execution"} -> "require_approval"
               [] risk = "destructive" -> "deny")
      [] tier = "balanced" ->
            (CASE risk \in {"read-only", "patch-only", "refactor"} -> "allow"
               [] risk \in {"execution", "destructive"} -> "require_approval")
      [] tier = "permissive" ->
            (CASE risk = "destructive" -> "require_approval"
               [] risk \in {"read-only", "patch-only", "refactor", "execution"} -> "allow")

\* simulate_tool without the test on the tool's minimum tier
simulate_tool_NoMinimum(policy_tier, tool) ==
    LET requirement == policy_requirement_for_risk(policy_tier, RiskClass(tool))
    IN [tool_id |-> tool, requirement |-> requirement,
        blocked |-> requirement = "deny",
        reason |-> CASE requirement = "allow" -> "allowed by risk policy"
                     [] requirement = "require_approval" ->
                          "requires approval by risk policy"
                     [] requirement = "deny" -> "blocked by risk policy"]

\* simulate_tool: the ToolPolicyOutcome of a tool under a tier
simulate_tool(policy_tier, tool) ==
    IF ~tier_satisfies(policy_tier, MinTier(tool))
    THEN [tool_id |-> tool, requirement |-> "deny", blocked |-> TRUE,
          reason |-> "policy tier below tool minimum"]
    ELSE LET requirement == policy_requirement_for_risk(policy_tier, RiskClass(tool))
         IN [tool_id |-> tool, requirement |-> requirement,
             blocked |-> requirement = "deny",
             reason |-> CASE requirement = "allow" -> "allowed by risk policy"
                          [] requirement = "require_approval" ->
                               "requires approval by risk policy"
                          [] requirement = "deny" -> "blocked by risk policy"]

simulate_tool_reason(policy_tier, tool) == simulate_tool(policy_tier, tool).reason

\* ApprovalState::default: the tier of every ShellState the driver creates
DefaultTier == "balanced"

----------------------------------------------------------------------------
\* Persisted events (PersistedShellEvent) and records

EvBase ==
    [kind |-> "", run_id |-> 0, status |-> "", step_index |-> 0, reason |-> None,
     invocation_id |-> 0, tool_id |-> "", request_id |-> <<>>, decision |-> "",
     policy_tier |-> ""]

WorkflowRunStarted(run_id, tier) ==
    [EvBase EXCEPT !.kind = "WorkflowRunStarted", !.run_id = run_id, !.policy_tier = tier]

WorkflowStatusChanged(run_id, status, step_index, reason) ==
    [EvBase EXCEPT !.kind = "WorkflowStatusChanged", !.run_id = run_id,
                   !.status = status, !.step_index = step_index, !.reason = reason]

ToolInvocationIssued(run_id, invocation_id, tool_id) ==
    [EvBase EXCEPT !.kind = "ToolInvocationIssued", !.run_id = run_id,
                   !.invocation_id = invocation_id, !.tool_id = tool_id]

ToolResultRecorded(run_id, invocation_id, tool_id, status) ==
    [EvBase EXCEPT !.kind = "ToolResultRecorded", !.run_id = run_id,
                   !.invocation_id = invocation_id, !.tool_id = tool_id,
                   !.status = status]

ApprovalRequested(request_id, run_id, invocation_id, tool_id) ==
    [EvBase EXCEPT !.kind = "ApprovalRequested", !.request_id = request_id,
                   !.run_id = run_id, !.invocation_id = invocation_id,
                   !.tool_id = tool_id]

ApprovalResolved(request_id, run_id, decision) ==
    [EvBase EXCEPT !.kind = "ApprovalResolved", !.request_id = request_id,
                   !.run_id = run_id, !.decision = decision]

WorkflowResumed(run_id) ==
    [EvBase EXCEPT !.kind = "WorkflowResumed", !.run_id = run_id]

\* RequestId with the two numbers in the wrong order
RequestId_Swapped(run_id, invocation_id) == <<"req", invocation_id, run_id>>

\* format!("req-{run_id}-{invocation_id}"): the two numbers determine the string
RequestId(run_id, invocation_id) == <<"req", run_id, invocation_id>>

----------------------------------------------------------------------------
\* The journal file. A line is [kind, rec]:
\*   "rec"      a serialized record followed by "\n"
\*   "bad"      a malformed line followed by "\n"
\*   "open_rec" a whole serialized record with no "\n" after it yet (last line)
\*   "open_bad" malformed text with no "\n" after it yet (last line)

LastLineOpen(f) == f # <<>> /\ f[Len(f)].kind \in {"open_rec", "open_bad"}

\* append_line run to its end: the line and "\n" go to the end of the file
append_line(f, rec) ==
    IF LastLineOpen(f)
    THEN [f EXCEPT ![Len(f)] = [kind |-> "bad", rec |-> rec]]
    ELSE Append(f, [kind |-> "rec", rec |-> rec])

\* append_line cut by a kill: "nonl" after the line and before "\n",
\* "partial" inside the line
append_line_torn(f, rec, how) ==
    IF LastLineOpen(f)
    THEN [f EXCEPT ![Len(f)] = [kind |-> "open_bad", rec |-> rec]]
    ELSE Append(f, [kind |-> IF how = "nonl" THEN "open_rec" ELSE "open_bad",
                    rec |-> rec])

RECURSIVE load_records(_)
load_records(f) ==
    IF f = <<>> THEN <<>>
    ELSE LET rest == load_records(Tail(f))
         IN IF Head(f).kind \in {"rec", "open_rec"}
            THEN <<Head(f).rec>> \o rest
            ELSE rest

RECURSIVE MaxSeq(_)
MaxSeq(records) ==
    IF records = <<>> THEN 0
    ELSE Max2(Head(records).seq, MaxSeq(Tail(records)))

\* open that numbers from 1 whatever the file holds
open_next_seq_Restart(f) == 1

\* ShellEventStore::open: next_seq
open_next_seq(f) ==
    LET existing == load_records(f)
    IN IF existing = <<>> THEN 1 ELSE MaxSeq(existing) + 1

load_since(f, seq_exclusive) ==
    SelectSeq(load_records(f), LAMBDA r : r.seq > seq_exclusive)

----------------------------------------------------------------------------
\* Replay projection

\* a record put after every record whose seq is not greater
RECURSIVE InsertBySeq(_, _)
InsertBySeq(sorted, r) ==
    IF sorted = <<>> \/ sorted[Len(sorted)].seq <= r.seq
    THEN Append(sorted, r)
    ELSE Append(InsertBySeq(SubSeq(sorted, 1, Len(sorted) - 1), r),
                sorted[Len(sorted)])

\* sort_by_key(|record| record.seq): a stable sort
RECURSIVE SortBySeq(_)
SortBySeq(records) ==
    IF records = <<>> THEN <<>>
    ELSE InsertBySeq(SortBySeq(SubSeq(records, 1, Len(records) - 1)),
                     records[Len(records)])

\* FreshRun with the invocation counter starting at 0
FreshRun_FromZero(run_id) ==
    [run_id |-> run_id, step_index |-> 0, status |-> "running",
     pending_request_id |-> None, pending_tool_id |-> None,
     pending_invocation_id |-> None, next_invocation_id |-> 0,
     blocked_reason |-> None]

FreshRun(run_id) ==
    [run_id |-> run_id, step_index |-> 0, status |-> "running",
     pending_request_id |-> None, pending_tool_id |-> None,
     pending_invocation_id |-> None, next_invocation_id |-> 1,
     blocked_reason |-> None]

ClearPending(run) ==
    [run EXCEPT !.pending_request_id = None, !.pending_tool_id = None,
                !.pending_invocation_id = None]

\* the arms of the match in replay_workflow_from, for an event of the latest run

OnStatusChanged(run, ev) ==
    LET r1 == [run EXCEPT !.status = ev.status, !.step_index = ev.step_index,
                          !.blocked_reason = ev.reason]
    IN IF ev.status # "awaiting_approval" THEN ClearPending(r1) ELSE r1

OnToolResult(run, ev) ==
    IF ev.status = "succeeded"
    THEN [run EXCEPT !.step_index = run.step_index + 1,
                     !.next_invocation_id = run.next_invocation_id + 1]
    ELSE run

\* the ApprovalRequested arm that leaves pending_invocation_id unset
OnApprovalRequested_NoInvocation(run, ev) ==
    [run EXCEPT !.status = "awaiting_approval", !.blocked_reason = None,
                !.pending_request_id = Some(ev.request_id),
                !.pending_tool_id = Some(ev.tool_id),
                !.next_invocation_id = ev.invocation_id + 1]

OnApprovalRequested(run, ev) ==
    [run EXCEPT !.status = "awaiting_approval", !.blocked_reason = None,
                !.pending_request_id = Some(ev.request_id),
                !.pending_tool_id = Some(ev.tool_id),
                !.pending_invocation_id = Some(ev.invocation_id),
                !.next_invocation_id = ev.invocation_id + 1]

\* the ApprovalResolved arm without the test of the pending request id
OnApprovalResolved_AnyRequest(run, ev) ==
    ClearPending([run EXCEPT !.status = IF ev.decision = "approved"
                                        THEN "running" ELSE "blocked",
                             !.blocked_reason = None])

OnApprovalResolved(run, ev) ==
    IF run.pending_request_id = Some(ev.request_id)
    THEN ClearPending([run EXCEPT !.status = IF ev.decision = "approved"
                                             THEN "running" ELSE "blocked",
                                  !.blocked_reason = None])
    ELSE run

OnResumed(run, ev) ==
    ClearPending([run EXCEPT !.status = "running", !.blocked_reason = None])

\* the body of the loop of replay_workflow_from
ReplayEvent(latest, ev) ==
    IF ev.kind = "WorkflowRunStarted" THEN Some(FreshRun(ev.run_id))
    ELSE IF ~IsSome(latest) \/ Unwrap(latest).run_id # ev.run_id THEN latest
    ELSE LET run == Unwrap(latest) IN
      CASE ev.kind = "WorkflowStatusChanged" -> Some(OnStatusChanged(run, ev))
        [] ev.kind = "ToolResultRecorded" -> Some(OnToolResult(run, ev))
        [] ev.kind = "ApprovalRequested" -> Some(OnApprovalRequested(run, ev))
        [] ev.kind = "ApprovalResolved" -> Some(OnApprovalResolved(run, ev))
        [] ev.kind = "WorkflowResumed" -> Some(OnResumed(run, ev))
        [] OTHER -> latest

RECURSIVE ReplayFold(_, _)
ReplayFold(latest, records) ==
    IF records = <<>> THEN latest
    ELSE ReplayFold(ReplayEvent(latest, Head(records).event), Tail(records))

\* replay_workflow_from that folds the records in the order given
replay_workflow_from_Unsorted(initial, records) == ReplayFold(initial, records)

replay_workflow_from(initial, records) == ReplayFold(initial, SortBySeq(records))

replay_latest_workflow(records) == replay_workflow_from(None, records)

----------------------------------------------------------------------------
\* Snapshot files. A file is [st, seq, workflow]: st is "absent", "ok", or
\* "torn" (fs::write truncated the file and was killed before the bytes were in)

NoSnap == [st |-> "absent", seq |-> 0, workflow |-> None]

TornSnap == [st |-> "torn", seq |-> 0, workflow |-> None]

\* the closure of save_snapshots: Running is demoted to Blocked/"interrupted"
Demote(run) ==
    IF run.status = "running"
    THEN [run EXCEPT !.status = "blocked", !.blocked_reason = Some("interrupted")]
    ELSE run

\* save_snapshots stamping the snapshot with the seq of the next append
save_snapshots_NextSeq(f, seq) ==
    LET latest == replay_latest_workflow(load_records(f))
    IN [st |-> "ok", seq |-> seq + 1,
        workflow |-> IF IsSome(latest) THEN Some(Demote(Unwrap(latest))) ELSE None]

\* the PersistedShellSnapshot that save_snapshots builds
save_snapshots(f, seq) ==
    LET latest == replay_latest_workflow(load_records(f))
    IN [st |-> "ok", seq |-> seq,
        workflow |-> IF IsSome(latest) THEN Some(Demote(Unwrap(latest))) ELSE None]

\* [err, snap]: err when the file chosen does not parse
load_snapshot_preferred(cli, store) ==
    LET chosen == IF cli.st # "absent" THEN cli ELSE store
    IN CASE chosen.st = "absent" -> [err |-> FALSE, snap |-> None]
         [] chosen.st = "torn" -> [err |-> TRUE, snap |-> None]
         [] chosen.st = "ok" -> [err |-> FALSE, snap |-> Some(chosen)]

\* [err, run]
load_latest_run(f, cli, store) ==
    LET got == load_snapshot_preferred(cli, store)
    IN IF got.err THEN [err |-> TRUE, run |-> None]
       ELSE IF IsSome(got.snap)
            THEN [err |-> FALSE,
                  run |-> replay_workflow_from(Unwrap(got.snap).workflow,
                                               load_since(f, Unwrap(got.snap).seq))]
            ELSE [err |-> FALSE, run |-> replay_latest_workflow(load_records(f))]

----------------------------------------------------------------------------
\* Review policies given with --policy, and the policy gate

\* the command lines tried: [policy, intent]
CommandLines ==
    {[policy |-> "none", intent |-> None],
     [policy |-> "none", intent |-> Some("fix")],
     [policy |-> "approve_all", intent |-> None],
     [policy |-> "block_exec", intent |-> None],
     [policy |-> "block_diff", intent |-> Some("fix")]}

\* eval_boolean_with_context on the expressions the model uses: [ok, value],
\* ok = FALSE for Err (an identifier that is not bound, a value that is not a
\* boolean)
eval_boolean_with_context(condition, signals) ==
    CASE condition = "risk_class == \"execution\"" ->
            [ok |-> TRUE, value |-> signals.risk_class = "execution"]
      [] condition = "diff_files_changed > 0" ->
            [ok |-> TRUE, value |-> signals.diff_files_changed > 0]
      [] condition = "true" -> [ok |-> TRUE, value |-> TRUE]
      [] condition = "false" -> [ok |-> TRUE, value |-> FALSE]
      [] OTHER -> [ok |-> FALSE, value |-> FALSE]

\* evaluate_condition taking an expression that fails for one that holds
evaluate_condition_ErrorMatches(when, signals) ==
    LET r == eval_boolean_with_context(when, signals)
    IN IF r.ok THEN r.value ELSE TRUE

\* a rule condition over the signals: Ok(result) => result, Err(e) => false
evaluate_condition(when, signals) ==
    LET r == eval_boolean_with_context(when, signals)
    IN IF r.ok THEN r.value ELSE FALSE

\* ApprovalConfig, reduced to its field `required`
DefaultApproval == [required |-> 1]

ReviewPolicies ==
    [approve_all |-> [mode |-> "deny_by_default", defaults |-> DefaultApproval,
                      rules |-> <<>>],
     block_exec  |-> [mode |-> "allow_by_default", defaults |-> DefaultApproval,
                      rules |-> <<[id |-> <<"rule", 1>>,
                                   when |-> "risk_class == \"execution\"",
                                   then |-> "blocked",
                                   msg |-> "execution is blocked",
                                   approval |-> None]>>],
     block_diff  |-> [mode |-> "allow_by_default", defaults |-> DefaultApproval,
                      rules |-> <<[id |-> <<"rule", 1>>,
                                   when |-> "diff_files_changed > 0",
                                   then |-> "blocked",
                                   msg |-> "interrupted",
                                   approval |-> None]>>]]

RECURSIVE FirstMatch(_, _)
FirstMatch(rules, signals) ==
    IF rules = <<>> THEN None
    ELSE IF evaluate_condition(Head(rules).when, signals) THEN Some(Head(rules))
    ELSE FirstMatch(Tail(rules), signals)

\* ReviewPolicy::evaluate
evaluate(policy, signals) ==
    LET hit == FirstMatch(policy.rules, signals)
    IN IF IsSome(hit)
       THEN [decision |-> Unwrap(hit).then, matched_rule_id |-> Some(Unwrap(hit).id),
             message |-> Unwrap(hit).msg, requirements |-> Unwrap(hit).approval]
       ELSE IF policy.mode = "allow_by_default"
            THEN [decision |-> "allowed", matched_rule_id |-> None,
                  message |-> "Allowed by default", requirements |-> None]
            ELSE [decision |-> "approval_required", matched_rule_id |-> None,
                  message |-> "Approval required by default",
                  requirements |-> Some(policy.defaults)]

\* no policy has been evaluated
NoEval == [policy |-> None, signals |-> None, decision |-> None]

\* AssessPolicyGate reading the static table even when a policy is active
AssessPolicyGate_TableOnly(policy, tier, risk, reason, diff) ==
    [requirement |-> policy_requirement_for_risk(tier, risk), reason |-> reason]

\* AssessPolicyGate keeping the reason of the action instead of the decision's message
AssessPolicyGate_ActionReason(policy, tier, risk, reason, diff) ==
    IF policy # "none"
    THEN LET signals == [risk_class |-> risk,
                         diff_files_changed |-> IF diff = "none" THEN 0 ELSE 1]
             decision == evaluate(ReviewPolicies[policy], signals)
         IN [requirement |-> CASE decision.decision = "allowed" -> "allow"
                               [] decision.decision = "blocked" -> "deny"
                               [] decision.decision = "approval_required" ->
                                    "require_approval",
             reason |-> reason]
    ELSE [requirement |-> policy_requirement_for_risk(tier, risk), reason |-> reason]

\* reducer arm AssessPolicyGate: the PolicyGateState it stores in last_gate.
\* diff is the DiffArtifact of the state: "none", or the risk its lines give.
AssessPolicyGate(policy, tier, risk, reason, diff) ==
    IF policy # "none"
    THEN LET signals == [risk_class |-> risk,
                         diff_files_changed |-> IF diff = "none" THEN 0 ELSE 1]
             decision == evaluate(ReviewPolicies[policy], signals)
         IN [requirement |-> CASE decision.decision = "allowed" -> "allow"
                               [] decision.decision = "blocked" -> "deny"
                               [] decision.decision = "approval_required" ->
                                    "require_approval",
             reason |-> decision.message]
    ELSE [requirement |-> policy_requirement_for_risk(tier, risk), reason |-> reason]

----------------------------------------------------------------------------
\* ShellState and the journey projection (dao-core/src/state.rs)

\* the run ids and artifact ids that actions carry
MaxRunId == 2

MaxArtifactId == 2

\* LogBuffer::new(2_000)
LogCap == 2000

RunIds == 0..MaxRunId

ArtifactIds == 1..MaxArtifactId

ArtifactKinds == {"system", "plan", "diff", "verify"}

RuntimeFlagNames == {"scanning", "planning", "diffing", "awaiting_approval", "verifying"}

JourneyStates ==
    {"Idle", "Scanning", "Planning", "Diffing", "ReviewReady", "AwaitingApproval",
     "Verifying", "Completed", "Failed"}

PolicyTiers == {"strict", "balanced", "permissive"}

RiskClasses == {"read-only", "patch-only", "refactor", "execution", "destructive"}

\* LogBuffer::new
LogBuffer_new(cap) == [cap |-> cap, next_seq |-> 1, buf |-> <<>>]

\* LogBuffer::append: the entry takes the next seq; the oldest entry is dropped
\* when the length equals cap (pop_front of an empty buffer drops nothing)
LogBuffer_append(self, entry) ==
    LET kept == IF Len(self.buf) = self.cap /\ self.buf # <<>>
                THEN Tail(self.buf) ELSE self.buf
    IN [self EXCEPT !.next_seq = self.next_seq + 1,
                    !.buf = Append(kept, [entry EXCEPT !.seq = self.next_seq])]

\* LogBuffer::clear
LogBuffer_clear(self) == [self EXCEPT !.next_seq = 1, !.buf = <<>>]

\* persona_policy_for
persona_policy_for(personality) ==
    IF personality = "Friendly"
    THEN [tier_ceiling |-> "balanced", explanation_depth |-> "Detailed",
          output_format |-> "ImpactFirst",
          tab_order |-> <<"Chat", "Overview", "Telemetry", "Plan", "Explain", "Diff",
                          "Logs", "System", "FileBrowser">>,
          visible_tools |-> <<"scan_repo", "generate_plan", "verify">>]
    ELSE [tier_ceiling |-> "permissive", explanation_depth |-> "Brief",
          output_format |-> "TechnicalFirst",
          tab_order |-> <<"Chat", "Telemetry", "Diff", "Logs", "Plan", "System",
                          "FileBrowser", "Explain", "Overview">>,
          visible_tools |-> <<"scan_repo", "generate_plan", "compute_diff", "verify">>]

\* PersonaPolicyOverrides::default
NoOverrides == [tier_ceiling |-> None, explanation_depth |-> None, output_format |-> None]

\* Option::unwrap_or
unwrap_or(o, default) == IF IsSome(o) THEN Unwrap(o) ELSE default

\* apply_persona_policy_overrides
apply_persona_policy_overrides(defaults, overrides) ==
    [tier_ceiling |-> unwrap_or(overrides.tier_ceiling, defaults.tier_ceiling),
     explanation_depth |-> unwrap_or(overrides.explanation_depth,
                                     defaults.explanation_depth),
     output_format |-> unwrap_or(overrides.output_format, defaults.output_format),
     tab_order |-> defaults.tab_order,
     visible_tools |-> defaults.visible_tools]

\* SubjectMatterState as ShellState::new builds it: the persona fields
NewSubjectMatter(personality) ==
    [personality |-> personality,
     persona_policy_defaults |-> persona_policy_for(personality),
     persona_policy_overrides |-> NoOverrides,
     persona_policy |-> apply_persona_policy_overrides(persona_policy_for(personality),
                                                       NoOverrides)]

\* RuntimeFlagState::default
FlagOff == [active |-> FALSE, run_id |-> 0]

\* ShellState::new
NewShell ==
    [artifacts |-> [k \in ArtifactKinds |-> None],
     logs |-> LogBuffer_new(LogCap),
     flags |-> [f \in RuntimeFlagNames |-> FlagOff],
     next_run_id |-> 1,
     policy_tier |-> DefaultTier,
     active_policy |-> "none",
     pending |-> None,
     last_decision |-> None,
     last_gate |-> None,
     next_request_seq |-> 1,
     error |-> None,
     journey |-> [state |-> "Idle", step |-> "Idea", active_run_id |-> 0],
     routing_journey |-> "Idea",
     is_thinking |-> FALSE,
     file_browser |-> [depth |-> 1, entries |-> <<>>, selected |-> 0],
     input_height |-> 3,
     selected_diff_file |-> None,
     sm |-> NewSubjectMatter("Pragmatic")]

\* the maximum of a finite set of naturals, 0 for the empty set
MaxOf(S) == IF S = {} THEN 0 ELSE CHOOSE m \in S : \A x \in S : x <= m

\* the run ids of the active runtime flags
ActiveFlagRuns(state) ==
    {state.flags[f].run_id : f \in {g \in RuntimeFlagNames : state.flags[g].active}}

\* the run ids of the artifacts present
ArtifactRuns(state) ==
    {Unwrap(state.artifacts[k]).run_id :
        k \in {j \in ArtifactKinds : IsSome(state.artifacts[j])}}

PendingRuns(state) ==
    IF IsSome(state.pending) THEN {Unwrap(state.pending).run_id} ELSE {}

DecisionRuns(state) ==
    IF IsSome(state.last_decision) THEN {Unwrap(state.last_decision).run_id} ELSE {}

\* RuntimeFlags::current_active_run_id
current_active_run_id(state) == MaxOf(ActiveFlagRuns(state))

\* ShellState::current_run_id
current_run_id(state) ==
    MaxOf(ActiveFlagRuns(state) \cup ArtifactRuns(state) \cup PendingRuns(state)
          \cup DecisionRuns(state) \cup {state.journey.active_run_id})

\* active_run_id that leaves the pending approval out
derive_active_run_id_NoPending(state) ==
    MaxOf(ActiveFlagRuns(state) \cup ArtifactRuns(state))

\* derive_journey: active_run_id
derive_active_run_id(state) ==
    MaxOf(ActiveFlagRuns(state) \cup ArtifactRuns(state) \cup PendingRuns(state))

FlagOn(state, f, run_id) == state.flags[f].active /\ state.flags[f].run_id = run_id

derive_journey(state) ==
    LET active_run_id == derive_active_run_id(state)
        on(st, sp) == [state |-> st, step |-> sp, active_run_id |-> active_run_id]
    IN IF IsSome(state.error) /\ Unwrap(state.error).run_id = active_run_id
       THEN on("Failed", "Learn")
       ELSE IF \/ (IsSome(state.pending) /\ Unwrap(state.pending).run_id = active_run_id)
               \/ FlagOn(state, "awaiting_approval", active_run_id)
       THEN on("AwaitingApproval", "Approve")
       ELSE IF FlagOn(state, "verifying", active_run_id) THEN on("Verifying", "Verify")
       ELSE IF FlagOn(state, "diffing", active_run_id) THEN on("Diffing", "Preview")
       ELSE IF FlagOn(state, "planning", active_run_id) THEN on("Planning", "Plan")
       ELSE IF FlagOn(state, "scanning", active_run_id) THEN on("Scanning", "Understand")
       ELSE IF /\ IsSome(state.artifacts["verify"])
               /\ Unwrap(state.artifacts["verify"]).run_id = active_run_id
               /\ Unwrap(state.artifacts["verify"]).overall = "Passing"
       THEN on("Completed", "Learn")
       ELSE IF /\ IsSome(state.artifacts["diff"])
               /\ Unwrap(state.artifacts["diff"]).run_id = active_run_id
       THEN on("ReviewReady", "Preview")
       ELSE on("Idle", "Idea")

\* artifact_is_newer that compares the run ids only
artifact_is_newer_RunOnly(new_run_id, new_artifact_id, current) ==
    IF ~IsSome(current) THEN TRUE
    ELSE new_run_id >= Unwrap(current).run_id

artifact_is_newer(new_run_id, new_artifact_id, current) ==
    IF ~IsSome(current) THEN TRUE
    ELSE LET run_id == Unwrap(current).run_id
             artifact_id == Unwrap(current).artifact_id
         IN new_run_id > run_id \/ (new_run_id = run_id /\ new_artifact_id >= artifact_id)

----------------------------------------------------------------------------
\* The reducer (dao-core/src/reducer.rs): reduce_runtime as a function of the
\* state and the action.  The tab that auto_follow_intent selects is left out.

\* RuntimeFlags::clear_all
clear_all(flags) == [f \in RuntimeFlagNames |-> [flags[f] EXCEPT !.active = FALSE]]

\* LogBuffer::append
LogAppend(logs, run_id, message) ==
    LogBuffer_append(logs, [seq |-> 0, run_id |-> run_id, message |-> message])

\* recompute_journey that leaves routing.journey as it was
recompute_journey_StatusOnly(state) == [state EXCEPT !.journey = derive_journey(state)]

\* recompute_journey
recompute_journey(state) ==
    LET projection == derive_journey(state)
    IN [state EXCEPT !.journey = projection, !.routing_journey = projection.step]

\* the flag that SetJourneyState raises for a state, "" for none
FlagOfJourneyState(next) ==
    CASE next = "Scanning" -> "scanning"
      [] next = "Planning" -> "planning"
      [] next = "Diffing" -> "diffing"
      [] next = "AwaitingApproval" -> "awaiting_approval"
      [] next = "Verifying" -> "verifying"
      [] OTHER -> ""

OnSetJourneyState(state, a) ==
    LET cleared == clear_all(state.flags)
    IN CASE a.next = "Idle" ->
              [state EXCEPT !.flags = cleared, !.error = None, !.pending = None]
         [] a.next \in {"Scanning", "Planning"} ->
              [state EXCEPT
                 !.next_run_id = state.next_run_id + 1,
                 !.flags = [cleared EXCEPT ![FlagOfJourneyState(a.next)] =
                              [active |-> TRUE, run_id |-> state.next_run_id]]]
         [] a.next \in {"Diffing", "AwaitingApproval", "Verifying"} ->
              [state EXCEPT
                 !.flags = [cleared EXCEPT ![FlagOfJourneyState(a.next)] =
                              [active |-> TRUE,
                               run_id |-> Max2(current_run_id(state), 1)]]]
         [] OTHER -> [state EXCEPT !.flags = cleared]

OnSetJourneyError(state, a) ==
    [state EXCEPT !.error = Some([run_id |-> current_run_id(state)])]

OnSetJourneyErrorState(state, a) == [state EXCEPT !.error = a.error]

\* the Option the artifact guard leaves in the slot: the new artifact when it
\* is newer than or equal to the current one
StoreArtifact(current, artifact) ==
    IF artifact_is_newer(artifact.run_id, artifact.artifact_id, current)
    THEN Some(artifact) ELSE current

\* the first element of a sequence that satisfies Test, None when there is none
FindFirst(seq, Test(_)) ==
    IF \E i \in 1..Len(seq) : Test(seq[i])
    THEN Some(seq[CHOOSE i \in 1..Len(seq) :
                    Test(seq[i]) /\ \A j \in 1..(i - 1) : ~Test(seq[j])])
    ELSE None

\* reconcile_selected_diff_file that takes the first file whatever its status
reconcile_selected_diff_file_FirstFile(state) ==
    IF ~IsSome(state.artifacts["diff"])
    THEN [state EXCEPT !.selected_diff_file = None]
    ELSE LET files == Unwrap(state.artifacts["diff"]).files
             current == state.selected_diff_file
         IN IF IsSome(current) /\ \E i \in 1..Len(files) : files[i].path = Unwrap(current)
            THEN state
            ELSE [state EXCEPT !.selected_diff_file =
                                 IF files = <<>> THEN None ELSE Some(Head(files).path)]

reconcile_selected_diff_file(state) ==
    IF ~IsSome(state.artifacts["diff"])
    THEN [state EXCEPT !.selected_diff_file = None]
    ELSE LET files == Unwrap(state.artifacts["diff"]).files
             current == state.selected_diff_file
             modified == FindFirst(files, LAMBDA f : f.status = "Modified")
         IN IF IsSome(current) /\ \E i \in 1..Len(files) : files[i].path = Unwrap(current)
            THEN state
            ELSE IF IsSome(modified)
            THEN [state EXCEPT !.selected_diff_file = Some(Unwrap(modified).path)]
            ELSE [state EXCEPT !.selected_diff_file =
                                 IF files = <<>> THEN None ELSE Some(Head(files).path)]

refresh_persona_policy(state) ==
    [state EXCEPT !.sm.persona_policy =
                    apply_persona_policy_overrides(state.sm.persona_policy_defaults,
                                                   state.sm.persona_policy_overrides)]

\* the arm SetPersonality that keeps the effective policy as it was
OnSetPersonality_NoRefresh(state, personality) ==
    [state EXCEPT !.sm.personality = personality,
                  !.sm.persona_policy_defaults = persona_policy_for(personality)]

\* the arm SetPersonality
OnSetPersonality(state, personality) ==
    refresh_persona_policy(
        [state EXCEPT !.sm.personality = personality,
                      !.sm.persona_policy_defaults = persona_policy_for(personality)])

\* the arms SetPersonaTierCeilingOverride, SetPersonaExplanationDepthOverride
\* and SetPersonaOutputFormatOverride: a.field is the field they set
OnSetPersonaOverride(state, a) ==
    refresh_persona_policy(
        [state EXCEPT !.sm.persona_policy_overrides[a.field] = a.value])

\* the arm ClearPersonaPolicyOverrides
OnClearPersonaPolicyOverrides(state) ==
    refresh_persona_policy([state EXCEPT !.sm.persona_policy_overrides = NoOverrides])

\* SetSystemArtifact, SetPlanArtifact, SetDiffArtifact, SetVerifyArtifact:
\* [stored, state]; a diff that is stored reconciles the selected file
OnSetArtifact(state, a) ==
    LET stored == artifact_is_newer(a.artifact.run_id, a.artifact.artifact_id,
                                    state.artifacts[a.kind])
        next == [state EXCEPT !.artifacts[a.kind] =
                                StoreArtifact(state.artifacts[a.kind], a.artifact)]
    IN [stored |-> stored,
        state |-> IF stored /\ a.kind = "diff"
                  THEN reconcile_selected_diff_file(next) ELSE next]

\* ClearSystemArtifact, ClearPlanArtifact, ClearDiffArtifact, ClearVerifyArtifact
OnClearArtifact(state, a) ==
    IF a.kind = "diff"
    THEN [state EXCEPT !.artifacts[a.kind] = None, !.selected_diff_file = None]
    ELSE [state EXCEPT !.artifacts[a.kind] = None]

OnSetRuntimeFlag(state, a) ==
    [state EXCEPT !.flags[a.flag] = [active |-> a.active, run_id |-> a.run_id],
                  !.next_run_id = IF a.run_id >= state.next_run_id
                                  THEN a.run_id + 1 ELSE state.next_run_id]

\* the arm AssessPolicyGate of reduce_runtime
OnAssessPolicyGate(state, a) ==
    LET gate == AssessPolicyGate(state.active_policy, state.policy_tier, a.risk,
                                 a.reason,
                                 IF IsSome(state.artifacts["diff"])
                                 THEN "patch-only" ELSE "none")
    IN [state EXCEPT !.last_gate =
          Some([run_id |-> a.run_id, action |-> a.action, risk |-> a.risk,
                requirement |-> gate.requirement, reason |-> gate.reason])]

\* RequestApproval that takes every request
OnRequestApproval_Always(state, a) ==
    LET run_id == Max2(a.request.run_id, 1)
    IN [accepted |-> TRUE,
        state |-> [state EXCEPT
          !.last_gate = Some([run_id |-> run_id, action |-> a.request.action,
                              risk |-> a.request.risk,
                              requirement |->
                                policy_requirement_for_risk(state.policy_tier,
                                                            a.request.risk),
                              reason |-> a.request.reason]),
          !.next_request_seq = state.next_request_seq + 1,
          !.pending = Some([a.request EXCEPT !.run_id = run_id]
                           @@ ("sequence" :> state.next_request_seq)),
          !.flags["awaiting_approval"] = [active |-> TRUE, run_id |-> run_id],
          !.logs = LogAppend(state.logs, run_id, <<"approval request queued", run_id>>)]]

\* RequestApproval: [accepted, state]
OnRequestApproval(state, a) ==
    LET run_id == Max2(a.request.run_id, 1)
        latest_approval_run_id == MaxOf(PendingRuns(state) \cup DecisionRuns(state))
    IN IF run_id >= latest_approval_run_id
       THEN [accepted |-> TRUE,
             state |-> [state EXCEPT
               !.last_gate = Some([run_id |-> run_id, action |-> a.request.action,
                                   risk |-> a.request.risk,
                                   requirement |->
                                     policy_requirement_for_risk(state.policy_tier,
                                                                 a.request.risk),
                                   reason |-> a.request.reason]),
               !.next_request_seq = state.next_request_seq + 1,
               !.pending = Some([a.request EXCEPT !.run_id = run_id]
                                @@ ("sequence" :> state.next_request_seq)),
               !.flags["awaiting_approval"] = [active |-> TRUE, run_id |-> run_id],
               !.logs = LogAppend(state.logs, run_id,
                                  <<"approval request queued", run_id>>)]]
       ELSE [accepted |-> FALSE, state |-> state]

\* the request_id of the pending request matches the decision; its run is not compared
ResolveMatches_IdOnly(state, decision) ==
    /\ IsSome(state.pending)
    /\ Unwrap(state.pending).request_id = decision.request_id

\* ResolveApproval: the test on the pending request
ResolveMatches(state, decision) ==
    /\ IsSome(state.pending)
    /\ Unwrap(state.pending).request_id = decision.request_id
    /\ Unwrap(state.pending).run_id = decision.run_id

\* ResolveApproval: [matched, state]
OnResolveApproval(state, a) ==
    LET decision == a.decision
        gate_risk == IF /\ IsSome(state.last_gate)
                        /\ Unwrap(state.last_gate).run_id = decision.run_id
                        /\ Unwrap(state.last_gate).action = decision.action
                     THEN Unwrap(state.last_gate).risk ELSE "execution"
    IN IF ResolveMatches(state, decision)
       THEN [matched |-> TRUE,
             state |-> [state EXCEPT
               !.pending = None,
               !.last_decision = Some(decision),
               !.flags["awaiting_approval"] =
                   IF state.flags["awaiting_approval"].run_id = decision.run_id
                   THEN [@ EXCEPT !.active = FALSE] ELSE @,
               !.last_gate = Some([run_id |-> decision.run_id,
                                   action |-> decision.action, risk |-> gate_risk,
                                   requirement |-> "allow",
                                   reason |-> <<"request", decision.request_id,
                                                decision.decision>>]),
               !.logs = LogAppend(state.logs, decision.run_id,
                                  <<"approval", decision.decision,
                                    decision.request_id>>)]]
       ELSE [matched |-> FALSE, state |-> state]

OnClearApprovalState(state, a) ==
    [state EXCEPT !.pending = None, !.last_decision = None, !.last_gate = None,
                  !.flags["awaiting_approval"] = [@ EXCEPT !.active = FALSE]]

\* reduce_runtime: the arm of the action, then recompute_journey when the arm
\* has set dirty
reduce_runtime(state, a) ==
    CASE a.type = "SetJourneyState" -> recompute_journey(OnSetJourneyState(state, a))
      [] a.type = "SetJourneyError" -> recompute_journey(OnSetJourneyError(state, a))
      [] a.type = "ClearJourneyError" -> recompute_journey([state EXCEPT !.error = None])
      [] a.type = "SetJourneyErrorState" ->
           recompute_journey(OnSetJourneyErrorState(state, a))
      [] a.type = "SetArtifact" ->
           LET r == OnSetArtifact(state, a)
           IN IF r.stored THEN recompute_journey(r.state) ELSE r.state
      [] a.type = "ClearArtifact" -> recompute_journey(OnClearArtifact(state, a))
      [] a.type = "SetRuntimeFlag" -> recompute_journey(OnSetRuntimeFlag(state, a))
      [] a.type = "SetPolicyTier" -> [state EXCEPT !.policy_tier = a.tier]
      [] a.type = "SetReviewPolicy" -> [state EXCEPT !.active_policy = a.policy]
      [] a.type = "AssessPolicyGate" -> OnAssessPolicyGate(state, a)
      [] a.type = "RequestApproval" ->
           LET r == OnRequestApproval(state, a)
           IN IF r.accepted THEN recompute_journey(r.state) ELSE r.state
      [] a.type = "ResolveApproval" ->
           LET r == OnResolveApproval(state, a)
           IN IF r.matched THEN recompute_journey(r.state) ELSE r.state
      [] a.type = "ClearApprovalState" ->
           recompute_journey(OnClearApprovalState(state, a))
      [] a.type = "AppendLog" ->
           [state EXCEPT !.logs = LogAppend(state.logs, current_run_id(state), a.value)]
      [] a.type = "ClearLogs" -> [state EXCEPT !.logs = LogBuffer_clear(state.logs)]
      [] a.type = "SetThinking" ->
           recompute_journey([state EXCEPT !.is_thinking = a.value])
      [] a.type = "SetPersonality" -> OnSetPersonality(state, a.personality)
      [] a.type = "SetPersonaOverride" -> OnSetPersonaOverride(state, a)
      [] a.type = "ClearPersonaPolicyOverrides" -> OnClearPersonaPolicyOverrides(state)

\* ---- reduce_user: the file browser and the input box ----

\* stands for usize::MAX: 2^64 - 1 is more than the checker's integers hold,
\* and every index of the model is far below either number
UsizeMax == 2147483647

\* usize subtraction: [panic, value]; when the result is negative the build
\* with overflow checks panics and the build without them wraps
usize_sub(a, b, overflow_checks) ==
    IF a >= b THEN [panic |-> FALSE, value |-> a - b]
    ELSE [panic |-> overflow_checks, value |-> UsizeMax - (b - a - 1)]

\* i16 addition: [panic, value], in the same way
i16_add(a, b, overflow_checks) ==
    IF a + b >= -32768 /\ a + b <= 32767 THEN [panic |-> FALSE, value |-> a + b]
    ELSE [panic |-> overflow_checks,
          value |-> ((a + b + 32768) % 65536) - 32768]

clamp(x, lo, hi) == IF x < lo THEN lo ELSE IF x > hi THEN hi ELSE x

\* the arm FileBrowserDown: [panic, state]
OnFileBrowserDown(state, overflow_checks) ==
    LET last_index == usize_sub(Len(state.file_browser.entries), 1, overflow_checks)
    IN IF last_index.panic THEN [panic |-> TRUE, state |-> state]
       ELSE [panic |-> FALSE,
             state |-> IF state.file_browser.selected < last_index.value
                       THEN [state EXCEPT !.file_browser.selected = @ + 1]
                       ELSE state]

\* the arm FileBrowserEnter: the index panics when it is out of bounds
OnFileBrowserEnter(state, is_dir) ==
    IF state.file_browser.selected >= Len(state.file_browser.entries)
    THEN [panic |-> TRUE, state |-> state]
    ELSE [panic |-> FALSE,
          state |-> IF is_dir
                    THEN [state EXCEPT !.file_browser.depth = @ + 1,
                                       !.file_browser.selected = 0]
                    ELSE state]

\* the arm ResizeInput
OnResizeInput(state, delta, overflow_checks) ==
    LET new_height == i16_add(state.input_height, delta, overflow_checks)
    IN IF new_height.panic THEN [panic |-> TRUE, state |-> state]
       ELSE [panic |-> FALSE,
             state |-> [state EXCEPT !.input_height = clamp(new_height.value, 1, 20)]]

\* reduce_user on the actions of the file browser, ResizeInput and
\* SelectDiffFile: [panic, state]
reduce_user(state, a, overflow_checks) ==
    CASE a.type = "SelectDiffFile" ->
           [panic |-> FALSE, state |-> [state EXCEPT !.selected_diff_file = Some(a.path)]]
      [] a.type = "FileBrowserUp" ->
           [panic |-> FALSE,
            state |-> IF state.file_browser.selected > 0
                      THEN [state EXCEPT !.file_browser.selected = @ - 1]
                      ELSE state]
      [] a.type = "FileBrowserDown" -> OnFileBrowserDown(state, overflow_checks)
      [] a.type = "FileBrowserEnter" -> OnFileBrowserEnter(state, a.is_dir)
      [] a.type = "FileBrowserBack" ->
           [panic |-> FALSE,
            state |-> IF state.file_browser.depth > 0
                      THEN [state EXCEPT !.file_browser.depth = @ - 1,
                                         !.file_browser.selected = 0]
                      ELSE state]
      [] a.type = "ResizeInput" -> OnResizeInput(state, a.delta, overflow_checks)

\* no action has been reduced yet
NoAction == [type |-> ""]

----------------------------------------------------------------------------
\* The driver process

NoGate == [requirement |-> "", reason |-> ""]

NoProc ==
    [cmd |-> "", run_id |-> 0, step |-> 0, start_step |-> 0, next_inv |-> 0,
     override |-> None, policy |-> "none", intent |-> None, next_seq |-> 0,
     last_seq |-> 0, diff |-> "none", inv |-> 0, gate |-> NoGate,
     snap_buf |-> NoSnap, base |-> 0, prompts |-> 0, resumed |-> None,
     mark |-> 0, gstep |-> 0, open_at_start |-> FALSE]

App(ev) == <<[op |-> "append", ev |-> ev]>>

SnapOps == <<[op |-> "snap_store", ev |-> EvBase], [op |-> "snap_cli", ev |-> EvBase]>>

StatusLabels == {"succeeded", "failed", "blocked"}

\* unified diffs the executor returns for compute_diff, one file each:
\* the path after "+++ " and the numbers of lines that start with "+" and "-".
\* The last one deletes the file: its new path is /dev/null.
DiffTexts ==
    {[new |-> "b/src/lib.rs", plus |-> 1, minus |-> 1],
     [new |-> "b/src/lib.rs", plus |-> 0, minus |-> 1],
     [new |-> "/dev/null", plus |-> 0, minus |-> 1]}

\* legacy_diff_files_from_text: every file it builds has status Modified
legacy_diff_files_from_text(text) ==
    <<[path |-> text.new, status |-> "Modified", added |-> text.plus,
       removed |-> text.minus]>>

RECURSIVE SumOf(_, _)
SumOf(files, field) ==
    IF files = <<>> THEN 0 ELSE Head(files)[field] + SumOf(Tail(files), field)

\* DiffArtifact::analyze_risk
analyze_risk(files) ==
    IF \E i \in 1..Len(files) : files[i].status = "Deleted" THEN "destructive"
    ELSE IF SumOf(files, "removed") > SumOf(files, "added") THEN "refactor"
    ELSE "patch-only"

\* the risks of the diffs of the executor
DiffKinds == {analyze_risk(legacy_diff_files_from_text(text)) : text \in DiffTexts}

\* the scopes explored: every command line and tool outcome over MaxProcs
\* processes, and one process more for the plain command line with tools that
\* succeed
Scopes ==
    {[procs |-> MaxProcs, runs |-> MaxRuns, lines |-> CommandLines,
      statuses |-> StatusLabels],
     [procs |-> MaxProcs + 1, runs |-> 1,
      lines |-> {[policy |-> "none", intent |-> None]},
      statuses |-> {"succeeded"}]}

Init ==
    /\ file = <<>>
    /\ snapStore = NoSnap
    /\ snapCli = NoSnap
    /\ pc = "idle"
    /\ ops = <<>>
    /\ proc = NoProc
    /\ appended = <<>>
    /\ nprocs = 0
    /\ nruns = 0
    /\ ntorn = 0
    /\ scope \in Scopes
    /\ shell = NewShell
    /\ last = NoAction
    /\ nacts = 0
    /\ peval = NoEval

\* ShellEventStore::append, run to its end
DoAppend ==
    /\ ops # <<>> /\ Head(ops).op = "append"
    /\ LET rec == [seq |-> proc.next_seq, event |-> Head(ops).ev]
       IN /\ file' = append_line(file, rec)
          /\ appended' = Append(appended, rec)
          /\ proc' = [proc EXCEPT !.next_seq = proc.next_seq + 1,
                                  !.last_seq = proc.next_seq]
    /\ ops' = Tail(ops)
    /\ UNCHANGED <<snapStore, snapCli, pc, nprocs, nruns, ntorn, scope, rvars, pvars>>

\* save_snapshots, first write: store.save_snapshot
DoSnapStore ==
    /\ ops # <<>> /\ Head(ops).op = "snap_store"
    /\ LET snapshot == save_snapshots(file, proc.last_seq)
       IN /\ snapStore' = snapshot
          /\ proc' = [proc EXCEPT !.snap_buf = snapshot]
    /\ ops' = Tail(ops)
    /\ UNCHANGED <<file, snapCli, pc, appended, nprocs, nruns, ntorn, scope, rvars, pvars>>

\* save_snapshots, second write: fs::write(snapshot_path, ...)
DoSnapCli ==
    /\ ops # <<>> /\ Head(ops).op = "snap_cli"
    /\ snapCli' = proc.snap_buf
    /\ ops' = Tail(ops)
    /\ UNCHANGED <<file, snapStore, pc, proc, appended, nprocs, nruns, ntorn, scope, rvars, pvars>>

\* run_workflow up to the call of execute_workflow
RunWorkflow(policy, intent) ==
    /\ pc = "idle" /\ nprocs < scope.procs /\ nruns < scope.runs
    /\ [policy |-> policy, intent |-> intent] \in scope.lines
    /\ LET prior == replay_latest_workflow(load_records(file))
           run_id == (IF IsSome(prior) THEN Unwrap(prior).run_id ELSE 0) + 1
       IN /\ proc' = [NoProc EXCEPT !.cmd = "run", !.run_id = run_id,
                                    !.step = 0, !.start_step = 0,
                                    !.next_inv = Max2(1, 1),
                                    !.policy = policy, !.intent = intent,
                                    !.next_seq = open_next_seq(file),
                                    !.base = Len(appended),
                                    !.open_at_start = LastLineOpen(file)]
          /\ ops' = App(WorkflowRunStarted(run_id, DefaultTier)) \o SnapOps
    /\ pc' = "loop"
    /\ nprocs' = nprocs + 1
    /\ nruns' = nruns + 1
    /\ UNCHANGED <<file, snapStore, snapCli, appended, ntorn, scope, rvars, pvars>>

\* resume_workflow that asks only for the pending request id
ResumeBranch_RequestOnly(view) ==
    IF view.err THEN "error"
    ELSE IF ~IsSome(view.run) THEN "nothing"
    ELSE LET run == Unwrap(view.run) IN
      CASE run.status \in {"completed", "failed"} -> "nothing"
        [] run.status = "awaiting_approval" ->
             IF IsSome(run.pending_request_id) THEN "approval" ELSE "malformed"
        [] run.status = "blocked" /\ run.blocked_reason # Some("interrupted") ->
             "nothing"
        [] OTHER -> "resume"

\* resume_workflow that takes a Failed run for one to resume
ResumeBranch_FailedResumes(view) ==
    IF view.err THEN "error"
    ELSE IF ~IsSome(view.run) THEN "nothing"
    ELSE LET run == Unwrap(view.run) IN
      CASE run.status = "completed" -> "nothing"
        [] run.status = "awaiting_approval" ->
             IF IsSome(run.pending_request_id) /\ IsSome(run.pending_tool_id)
                /\ IsSome(run.pending_invocation_id)
             THEN "approval" ELSE "malformed"
        [] run.status = "blocked" /\ run.blocked_reason # Some("interrupted") ->
             "nothing"
        [] OTHER -> "resume"

\* what resume_workflow decides from the run it loads
ResumeBranch(view) ==
    IF view.err THEN "error"
    ELSE IF ~IsSome(view.run) THEN "nothing"
    ELSE LET run == Unwrap(view.run) IN
      CASE run.status \in {"completed", "failed"} -> "nothing"
        [] run.status = "awaiting_approval" ->
             IF IsSome(run.pending_request_id) /\ IsSome(run.pending_tool_id)
                /\ IsSome(run.pending_invocation_id)
             THEN "approval" ELSE "malformed"
        [] run.status = "blocked" /\ run.blocked_reason # Some("interrupted") ->
             "nothing"
        [] OTHER -> "resume"

\* main: the exit code of resume for a branch that returns Err
exit_code(branch) ==
    CASE branch = "malformed" -> 2
      [] branch = "error" -> 1
      [] OTHER -> 0

\* resume_workflow: the branches that return at once
ResumeNothing ==
    /\ pc = "idle"
    /\ LET branch == ResumeBranch(load_latest_run(file, snapCli, snapStore))
       IN branch \in {"error", "nothing", "malformed"}
    /\ nprocs < scope.procs
    /\ nprocs' = nprocs + 1
    /\ UNCHANGED <<file, snapStore, snapCli, pc, ops, proc, appended, nruns, ntorn, scope, rvars, pvars>>

\* resume_workflow: Running, or Blocked with reason "interrupted"
ResumeInterrupted(policy, intent) ==
    /\ pc = "idle" /\ nprocs < scope.procs
    /\ [policy |-> policy, intent |-> intent] \in scope.lines
    /\ LET view == load_latest_run(file, snapCli, snapStore)
       IN /\ ResumeBranch(view) = "resume"
          /\ LET run == Unwrap(view.run)
             IN /\ proc' = [NoProc EXCEPT !.cmd = "resume", !.run_id = run.run_id,
                                          !.step = run.step_index,
                                          !.start_step = run.step_index,
                                          !.next_inv = Max2(run.next_invocation_id, 1),
                                          !.policy = policy, !.intent = intent,
                                          !.next_seq = open_next_seq(file),
                                          !.base = Len(appended),
                                          !.open_at_start = LastLineOpen(file),
                                          !.resumed = Some(run)]
                /\ ops' = App(WorkflowResumed(run.run_id)) \o SnapOps
    /\ pc' = "loop"
    /\ nprocs' = nprocs + 1
    /\ UNCHANGED <<file, snapStore, snapCli, appended, nruns, ntorn, scope, rvars, pvars>>

\* resume_workflow: AwaitingApproval with the pending triple, up to the prompt
ResumeAwaiting(policy, intent) ==
    /\ pc = "idle" /\ nprocs < scope.procs
    /\ [policy |-> policy, intent |-> intent] \in scope.lines
    /\ LET view == load_latest_run(file, snapCli, snapStore)
       IN /\ ResumeBranch(view) = "approval"
          /\ LET run == Unwrap(view.run)
             IN proc' = [NoProc EXCEPT !.cmd = "resume", !.run_id = run.run_id,
                                       !.step = run.step_index,
                                       !.start_step = run.step_index,
                                       !.next_inv = Max2(run.next_invocation_id, 1),
                                       !.policy = policy, !.intent = intent,
                                       !.next_seq = open_next_seq(file),
                                       !.base = Len(appended),
                                       !.open_at_start = LastLineOpen(file),
                                       !.resumed = Some(run)]
    /\ ops' = <<>>
    /\ pc' = "resume_prompt"
    /\ nprocs' = nprocs + 1
    /\ UNCHANGED <<file, snapStore, snapCli, appended, nruns, ntorn, scope, rvars, pvars>>

\* resume_workflow: prompt_approval and the two branches after it
ResumePrompt(approve) ==
    /\ pc = "resume_prompt" /\ ops = <<>>
    /\ LET run == Unwrap(proc.resumed)
           request_id == Unwrap(run.pending_request_id)
       IN IF approve
          THEN /\ ops' = App(ApprovalResolved(request_id, run.run_id, "approved"))
                         \o SnapOps \o App(WorkflowResumed(run.run_id)) \o SnapOps
               /\ proc' = [proc EXCEPT !.override = run.pending_invocation_id,
                                       !.prompts = proc.prompts + 1]
               /\ pc' = "loop"
          ELSE /\ ops' = App(ApprovalResolved(request_id, run.run_id, "denied"))
                         \o SnapOps
                         \o App(WorkflowStatusChanged(run.run_id, "blocked",
                                    run.step_index, Some("approval denied")))
                         \o SnapOps
               /\ proc' = [proc EXCEPT !.prompts = proc.prompts + 1]
               /\ pc' = "exit"
    /\ UNCHANGED <<file, snapStore, snapCli, appended, nprocs, nruns, ntorn, scope, rvars, pvars>>

\* ---- execute_workflow ----

\* risk of the step: the tool's class, or the diff's once past the diff step
StepRisk(step, diff) ==
    IF step > DiffStepIndex /\ diff # "none"
    THEN diff
    ELSE RiskClass(TemplateSteps[step + 1])

StepReason(intent, tool) ==
    IF IsSome(intent) THEN Unwrap(intent) ELSE simulate_tool_reason(DefaultTier, tool)

\* the invocation id of the step: first_override.take() on the first iteration
StepInvocation(step, start_step, override, next_inv) ==
    IF step = start_step /\ IsSome(override) THEN Unwrap(override) ELSE next_inv

\* first_override after the take(): what the approval test reads
OverrideAfterTake(step, start_step, override) ==
    IF step = start_step THEN None ELSE override

\* the tail of execute_workflow: optional commit, Completed, snapshot
Finish ==
    /\ pc = "loop" /\ ops = <<>> /\ proc.step >= NumSteps
    /\ ops' = (IF IsSome(proc.intent)
               THEN App(ToolInvocationIssued(proc.run_id, proc.next_inv, "git_commit"))
               ELSE <<>>)
              \o App(WorkflowStatusChanged(proc.run_id, "completed", NumSteps, None))
              \o SnapOps
    /\ pc' = "exit"
    /\ UNCHANGED <<file, snapStore, snapCli, proc, appended, nprocs, nruns, ntorn, scope, rvars, pvars>>

\* one iteration of the step loop, from the gate to the first write it leads to
GateStep ==
    /\ pc = "loop" /\ ops = <<>> /\ proc.step < NumSteps
    /\ LET tool == TemplateSteps[proc.step + 1]
           risk == StepRisk(proc.step, proc.diff)
           gate == AssessPolicyGate(proc.policy, DefaultTier, risk,
                                    StepReason(proc.intent, tool), proc.diff)
           inv == StepInvocation(proc.step, proc.start_step, proc.override,
                                 proc.next_inv)
           first_override == OverrideAfterTake(proc.step, proc.start_step,
                                               proc.override)
       IN IF gate.requirement = "deny"
          THEN /\ ops' = App(WorkflowStatusChanged(proc.run_id, "blocked", proc.step,
                                                   Some(gate.reason))) \o SnapOps
               /\ proc' = [proc EXCEPT !.gate = gate, !.mark = Len(appended),
                                       !.gstep = proc.step]
               /\ pc' = "exit"
          ELSE IF gate.requirement = "require_approval" /\ ~IsSome(first_override)
          THEN /\ ops' = App(ApprovalRequested(RequestId(proc.run_id, inv),
                                               proc.run_id, inv, tool))
               /\ proc' = [proc EXCEPT !.gate = gate, !.inv = inv,
                                       !.override = first_override,
                                       !.mark = Len(appended),
                                       !.gstep = proc.step]
               /\ pc' = "prompt"
          ELSE /\ ops' = App(ToolInvocationIssued(proc.run_id, inv, tool))
               /\ proc' = [proc EXCEPT !.gate = gate, !.inv = inv,
                                       !.override = first_override,
                                       !.mark = Len(appended),
                                       !.gstep = proc.step]
               /\ pc' = "exec"
    /\ UNCHANGED <<file, snapStore, snapCli, appended, nprocs, nruns, ntorn, scope, rvars, pvars>>

\* prompt_approval in the step loop and the two branches after it
Prompt(approve) ==
    /\ pc = "prompt" /\ ops = <<>>
    /\ LET tool == TemplateSteps[proc.step + 1]
           request_id == RequestId(proc.run_id, proc.inv)
       IN IF approve
          THEN /\ ops' = App(ApprovalResolved(request_id, proc.run_id, "approved"))
                         \o SnapOps
                         \o App(ToolInvocationIssued(proc.run_id, proc.inv, tool))
               /\ pc' = "exec"
          ELSE /\ ops' = App(ApprovalResolved(request_id, proc.run_id, "denied"))
                         \o SnapOps
                         \o App(WorkflowStatusChanged(proc.run_id, "blocked", proc.step,
                                                      Some("approval denied")))
                         \o SnapOps
               /\ pc' = "exit"
    /\ proc' = [proc EXCEPT !.prompts = proc.prompts + 1]
    /\ UNCHANGED <<file, snapStore, snapCli, appended, nprocs, nruns, ntorn, scope, rvars, pvars>>

WorkflowStatusOf(status) ==
    CASE status = "succeeded" -> "running"
      [] status = "failed" -> "failed"
      [] status = "blocked" -> "blocked"

\* executor.execute returns: the result is folded into the state and recorded
ExecuteTool(status, diffkind) ==
    /\ pc = "exec" /\ ops = <<>>
    /\ status \in scope.statuses
    /\ LET tool == TemplateSteps[proc.step + 1]
       IN /\ ops' = App(ToolResultRecorded(proc.run_id, proc.inv, tool, status))
                    \o App(WorkflowStatusChanged(proc.run_id, WorkflowStatusOf(status),
                              proc.step + 1,
                              IF status = "succeeded" THEN None
                              ELSE Some("tool execution did not succeed")))
                    \o SnapOps
          /\ proc' = [proc EXCEPT !.next_inv = Max2(proc.next_inv, proc.inv + 1),
                                  !.diff = IF tool = "compute_diff" THEN diffkind
                                           ELSE proc.diff,
                                  !.step = IF status = "succeeded" THEN proc.step + 1
                                           ELSE proc.step]
          /\ pc' = IF status = "succeeded" THEN "loop" ELSE "exit"
    /\ UNCHANGED <<file, snapStore, snapCli, appended, nprocs, nruns, ntorn, scope, rvars, pvars>>

\* the command returns
Exit ==
    /\ pc = "exit" /\ ops = <<>>
    /\ pc' = "idle"
    /\ proc' = NoProc
    /\ UNCHANGED <<file, snapStore, snapCli, ops, appended, nprocs, nruns, ntorn, scope, rvars, pvars>>

\* the process is killed between two writes
Kill ==
    /\ pc # "idle"
    /\ pc' = "idle"
    /\ ops' = <<>>
    /\ proc' = NoProc
    /\ UNCHANGED <<file, snapStore, snapCli, appended, nprocs, nruns, ntorn, scope, rvars, pvars>>

\* the process is killed inside append_line
KillInAppend(how) ==
    /\ ops # <<>> /\ Head(ops).op = "append" /\ ntorn < MaxTorn
    /\ file' = append_line_torn(file, [seq |-> proc.next_seq, event |-> Head(ops).ev],
                                how)
    /\ pc' = "idle"
    /\ ops' = <<>>
    /\ proc' = NoProc
    /\ ntorn' = ntorn + 1
    /\ UNCHANGED <<snapStore, snapCli, appended, nprocs, nruns, scope, rvars, pvars>>

\* the process is killed inside one of the two fs::write calls of save_snapshots
KillInSnapshot ==
    /\ ops # <<>> /\ Head(ops).op \in {"snap_store", "snap_cli"} /\ ntorn < MaxTorn
    /\ IF Head(ops).op = "snap_store"
       THEN snapStore' = TornSnap /\ UNCHANGED snapCli
       ELSE snapCli' = TornSnap /\ UNCHANGED snapStore
    /\ pc' = "idle"
    /\ ops' = <<>>
    /\ proc' = NoProc
    /\ ntorn' = ntorn + 1
    /\ UNCHANGED <<file, appended, nprocs, nruns, scope, rvars, pvars>>

Next ==
    \/ DoAppend
    \/ DoSnapStore
    \/ DoSnapCli
    \/ \E cl \in CommandLines : RunWorkflow(cl.policy, cl.intent)
    \/ ResumeNothing
    \/ \E cl \in CommandLines : ResumeInterrupted(cl.policy, cl.intent)
    \/ \E cl \in CommandLines : ResumeAwaiting(cl.policy, cl.intent)
    \/ \E approve \in BOOLEAN : ResumePrompt(approve)
    \/ Finish
    \/ GateStep
    \/ \E approve \in BOOLEAN : Prompt(approve)
    \/ \E status \in StatusLabels, diffkind \in DiffKinds : ExecuteTool(status, diffkind)
    \/ Exit
    \/ Kill
    \/ \E how \in {"partial", "nonl"} : KillInAppend(how)
    \/ KillInSnapshot

Spec == Init /\ [][Next]_vars

----------------------------------------------------------------------------
\* The reducer as a state machine: reduce applied to ShellState::new, one
\* action at a time

\* number of actions reduced in one behaviour
MaxActs == 3

RequestIds == {"req-a", "req-b"}

Artifacts(kind) ==
    IF kind = "diff"
    THEN [run_id : RunIds, artifact_id : ArtifactIds, overall : {"none"},
          files : {<<>>}]
    ELSE [run_id : RunIds, artifact_id : ArtifactIds,
          overall : IF kind = "verify" THEN {"Passing", "Failing"} ELSE {"none"}]

SetArtifactActions ==
    UNION {[type : {"SetArtifact"}, kind : {k}, artifact : Artifacts(k)] :
             k \in ArtifactKinds}

Requests ==
    [request_id : RequestIds, run_id : RunIds, action : {"execute"},
     risk : {"patch-only", "execution"}, reason : {"needs approval"}]

Decisions ==
    [request_id : RequestIds, run_id : RunIds, action : {"execute"},
     decision : {"approved", "denied"}]

\* each action below is reduce(state, ShellAction::Runtime(a)) for one variant
\* of RuntimeAction

SetJourneyState ==
    /\ nacts < MaxActs
    /\ \E next \in JourneyStates :
         LET a == [type |-> "SetJourneyState", next |-> next]
         IN shell' = reduce_runtime(shell, a) /\ last' = a
    /\ nacts' = nacts + 1
    /\ UNCHANGED <<dvars, pvars>>

SetJourneyError ==
    /\ nacts < MaxActs
    /\ LET a == [type |-> "SetJourneyError"]
       IN shell' = reduce_runtime(shell, a) /\ last' = a
    /\ nacts' = nacts + 1
    /\ UNCHANGED <<dvars, pvars>>

ClearJourneyError ==
    /\ nacts < MaxActs
    /\ LET a == [type |-> "ClearJourneyError"]
       IN shell' = reduce_runtime(shell, a) /\ last' = a
    /\ nacts' = nacts + 1
    /\ UNCHANGED <<dvars, pvars>>

SetJourneyErrorState ==
    /\ nacts < MaxActs
    /\ \E error \in {None} \cup {Some([run_id |-> r]) : r \in RunIds} :
         LET a == [type |-> "SetJourneyErrorState", error |-> error]
         IN shell' = reduce_runtime(shell, a) /\ last' = a
    /\ nacts' = nacts + 1
    /\ UNCHANGED <<dvars, pvars>>

SetArtifact ==
    /\ nacts < MaxActs
    /\ \E act \in SetArtifactActions :
         LET a == act
         IN shell' = reduce_runtime(shell, a) /\ last' = a
    /\ nacts' = nacts + 1
    /\ UNCHANGED <<dvars, pvars>>

ClearArtifact ==
    /\ nacts < MaxActs
    /\ \E k \in ArtifactKinds :
         LET a == [type |-> "ClearArtifact", kind |-> k]
         IN shell' = reduce_runtime(shell, a) /\ last' = a
    /\ nacts' = nacts + 1
    /\ UNCHANGED <<dvars, pvars>>

SetRuntimeFlag ==
    /\ nacts < MaxActs
    /\ \E f \in RuntimeFlagNames, active \in BOOLEAN, r \in RunIds :
         LET a == [type |-> "SetRuntimeFlag", flag |-> f, active |-> active, run_id |-> r]
         IN shell' = reduce_runtime(shell, a) /\ last' = a
    /\ nacts' = nacts + 1
    /\ UNCHANGED <<dvars, pvars>>

SetPolicyTier ==
    /\ nacts < MaxActs
    /\ \E t \in PolicyTiers :
         LET a == [type |-> "SetPolicyTier", tier |-> t]
         IN shell' = reduce_runtime(shell, a) /\ last' = a
    /\ nacts' = nacts + 1
    /\ UNCHANGED <<dvars, pvars>>

SetReviewPolicy ==
    /\ nacts < MaxActs
    /\ \E p \in {"approve_all", "block_exec"} :
         LET a == [type |-> "SetReviewPolicy", policy |-> p]
         IN shell' = reduce_runtime(shell, a) /\ last' = a
    /\ nacts' = nacts + 1
    /\ UNCHANGED <<dvars, pvars>>

AssessGate ==
    /\ nacts < MaxActs
    /\ \E r \in RunIds \ {0}, risk \in RiskClasses :
         LET a == [type |-> "AssessPolicyGate", run_id |-> r, action |-> "execute",
                   risk |-> risk, reason |-> "why"]
         IN shell' = reduce_runtime(shell, a) /\ last' = a
    /\ nacts' = nacts + 1
    /\ UNCHANGED <<dvars, pvars>>

RequestApproval ==
    /\ nacts < MaxActs
    /\ \E q \in Requests :
         LET a == [type |-> "RequestApproval", request |-> q]
         IN shell' = reduce_runtime(shell, a) /\ last' = a
    /\ nacts' = nacts + 1
    /\ UNCHANGED <<dvars, pvars>>

ResolveApproval ==
    /\ nacts < MaxActs
    /\ \E d \in Decisions :
         LET a == [type |-> "ResolveApproval", decision |-> d]
         IN shell' = reduce_runtime(shell, a) /\ last' = a
    /\ nacts' = nacts + 1
    /\ UNCHANGED <<dvars, pvars>>

ClearApprovalState ==
    /\ nacts < MaxActs
    /\ LET a == [type |-> "ClearApprovalState"]
       IN shell' = reduce_runtime(shell, a) /\ last' = a
    /\ nacts' = nacts + 1
    /\ UNCHANGED <<dvars, pvars>>

AppendLog ==
    /\ nacts < MaxActs
    /\ LET a == [type |-> "AppendLog", value |-> "line"]
       IN shell' = reduce_runtime(shell, a) /\ last' = a
    /\ nacts' = nacts + 1
    /\ UNCHANGED <<dvars, pvars>>

ClearLogs ==
    /\ nacts < MaxActs
    /\ LET a == [type |-> "ClearLogs"]
       IN shell' = reduce_runtime(shell, a) /\ last' = a
    /\ nacts' = nacts + 1
    /\ UNCHANGED <<dvars, pvars>>

SetThinking ==
    /\ nacts < MaxActs
    /\ \E v \in BOOLEAN :
         LET a == [type |-> "SetThinking", value |-> v]
         IN shell' = reduce_runtime(shell, a) /\ last' = a
    /\ nacts' = nacts + 1
    /\ UNCHANGED <<dvars, pvars>>

\* the driver at rest, the shell state fresh
ShellInit ==
    /\ file = <<>>
    /\ snapStore = NoSnap
    /\ snapCli = NoSnap
    /\ pc = "idle"
    /\ ops = <<>>
    /\ proc = NoProc
    /\ appended = <<>>
    /\ nprocs = 0
    /\ nruns = 0
    /\ ntorn = 0
    /\ scope \in {s \in Scopes : s.runs = 1}
    /\ shell = NewShell
    /\ last = NoAction
    /\ nacts = 0
    /\ peval = NoEval

ShellNext ==
    \/ SetJourneyState
    \/ SetJourneyError
    \/ ClearJourneyError
    \/ SetJourneyErrorState
    \/ SetArtifact
    \/ ClearArtifact
    \/ SetRuntimeFlag
    \/ SetPolicyTier
    \/ SetReviewPolicy
    \/ AssessGate
    \/ RequestApproval
    \/ ResolveApproval
    \/ ClearApprovalState
    \/ AppendLog
    \/ ClearLogs
    \/ SetThinking

ShellSpec == ShellInit /\ [][ShellNext]_vars

----------------------------------------------------------------------------
\* ReviewPolicy::evaluate as a state machine: a policy and signals are given,
\* evaluate is applied to them

\* number of rules of a policy
MaxRules == 2

\* the `when` expressions of the rules: two that read a signal, the two
\* constants, one that is not a boolean and one with an unbound identifier
Conditions ==
    {"risk_class == \"execution\"", "diff_files_changed > 0", "true", "false",
     "diff_files_changed", "unknown_signal > 0"}

\* RuleAction: Allow, Block, RequireApproval with its ApprovalConfig
RuleActions ==
    {[then |-> "allowed", msg |-> "", approval |-> None],
     [then |-> "blocked", msg |-> "blocked by rule", approval |-> None],
     [then |-> "approval_required", msg |-> "approval by rule",
      approval |-> Some([required |-> 2])]}

\* the id of the rule declared at place i
RuleId(i) == <<"rule", i>>

\* the rule lists of n rules, the rule at place i having id RuleId(i)
RuleLists(n) ==
    {[i \in 1..n |-> [id |-> RuleId(i), when |-> ws[i], then |-> as[i].then,
                      msg |-> as[i].msg, approval |-> as[i].approval]] :
        ws \in [1..n -> Conditions], as \in [1..n -> RuleActions]}

Policies ==
    {[mode |-> m, defaults |-> DefaultApproval, rules |-> rs] :
        m \in {"allow_by_default", "deny_by_default"},
        rs \in UNION {RuleLists(n) : n \in 0..MaxRules}}

SignalSets ==
    [risk_class : {"read-only", "execution"}, diff_files_changed : {0, 1}]

\* policy.evaluate(&signals)
Evaluate ==
    /\ peval.decision = None
    /\ peval' = [peval EXCEPT
                   !.decision = Some(evaluate(Unwrap(peval.policy),
                                              Unwrap(peval.signals)))]
    /\ UNCHANGED <<dvars, rvars>>

\* the state changes and the signals with it; the next evaluation is a new one
NewSignals ==
    /\ peval.decision # None
    /\ \E sg \in SignalSets :
         /\ Some(sg) # peval.signals
         /\ peval' = [peval EXCEPT !.signals = Some(sg), !.decision = None]
    /\ UNCHANGED <<dvars, rvars>>

PolicyInit ==
    /\ file = <<>>
    /\ snapStore = NoSnap
    /\ snapCli = NoSnap
    /\ pc = "idle"
    /\ ops = <<>>
    /\ proc = NoProc
    /\ appended = <<>>
    /\ nprocs = 0
    /\ nruns = 0
    /\ ntorn = 0
    /\ scope \in {s \in Scopes : s.runs = 1}
    /\ shell = NewShell
    /\ last = NoAction
    /\ nacts = 0
    /\ \E pl \in Policies, sg \in SignalSets :
         peval = [policy |-> Some(pl), signals |-> Some(sg), decision |-> None]

PolicyNext ==
    \/ Evaluate
    \/ NewSignals

PolicySpec == PolicyInit /\ [][PolicyNext]_vars

----------------------------------------------------------------------------
\* reduce on the user's actions, from ShellState::new. A panic ends the
\* process: an action that panics has no next state.

\* number of user actions reduced in one behaviour
MaxUserActs == 6

\* i16::MAX
I16Max == 32767

UserActions ==
    {[type |-> t] : t \in {"FileBrowserUp", "FileBrowserDown", "FileBrowserBack"}}
    \cup {[type |-> "FileBrowserEnter", is_dir |-> b] : b \in BOOLEAN}
    \cup {[type |-> "ResizeInput", delta |-> d] : d \in {-1, 1, I16Max}}

\* reduce(state, ShellAction::User(a)) returns
ReduceUser ==
    /\ nacts < MaxUserActs
    /\ \E a \in UserActions :
         LET r == reduce_user(shell, a, scope.overflow_checks)
         IN ~r.panic /\ shell' = r.state /\ last' = a
    /\ nacts' = nacts + 1
    /\ UNCHANGED <<dvars, pvars>>

\* scope.overflow_checks: the build panics on integer overflow (debug), or
\* wraps (release)
UserInit ==
    /\ file = <<>>
    /\ snapStore = NoSnap
    /\ snapCli = NoSnap
    /\ pc = "idle"
    /\ ops = <<>>
    /\ proc = NoProc
    /\ appended = <<>>
    /\ nprocs = 0
    /\ nruns = 0
    /\ ntorn = 0
    /\ \E s \in Scopes, b \in BOOLEAN :
         s.runs = 1 /\ scope = ("overflow_checks" :> b) @@ s
    /\ shell = NewShell
    /\ last = NoAction
    /\ nacts = 0
    /\ peval = NoEval

UserNext == ReduceUser

UserSpec == UserInit /\ [][UserNext]_vars

----------------------------------------------------------------------------
\* The diff panel: diffs with files are stored, the user selects a file

\* DiffFile: path and status
DiffFiles == [path : {"a.rs", "b.rs", "c.rs"}, status : {"Added", "Modified"}]

\* number of files of a diff
MaxFiles == 2

\* the file lists of the diffs: no path twice
DiffFileLists ==
    {fs \in UNION {[1..n -> DiffFiles] : n \in 0..MaxFiles} :
        \A i, j \in 1..Len(fs) : i # j => fs[i].path # fs[j].path}

\* DiffArtifact
DiffArtifacts ==
    [run_id : {1}, artifact_id : ArtifactIds, overall : {"none"},
     files : DiffFileLists]

\* reduce(state, ShellAction::Runtime(SetDiffArtifact(artifact)))
SetDiffArtifact ==
    /\ nacts < MaxActs
    /\ \E artifact \in DiffArtifacts :
         LET a == [type |-> "SetArtifact", kind |-> "diff", artifact |-> artifact]
         IN shell' = reduce_runtime(shell, a) /\ last' = a
    /\ nacts' = nacts + 1
    /\ UNCHANGED <<dvars, pvars>>

\* reduce(state, ShellAction::Runtime(ClearDiffArtifact))
ClearDiffArtifact ==
    /\ nacts < MaxActs
    /\ LET a == [type |-> "ClearArtifact", kind |-> "diff"]
       IN shell' = reduce_runtime(shell, a) /\ last' = a
    /\ nacts' = nacts + 1
    /\ UNCHANGED <<dvars, pvars>>

\* reduce(state, ShellAction::User(SelectDiffFile{path}))
SelectDiffFile ==
    /\ nacts < MaxActs
    /\ \E f \in DiffFiles :
         LET a == [type |-> "SelectDiffFile", path |-> f.path]
         IN shell' = reduce_user(shell, a, TRUE).state /\ last' = a
    /\ nacts' = nacts + 1
    /\ UNCHANGED <<dvars, pvars>>

SelectionNext ==
    \/ SetDiffArtifact
    \/ ClearDiffArtifact
    \/ SelectDiffFile

SelectionSpec == ShellInit /\ [][SelectionNext]_vars

----------------------------------------------------------------------------
\* The log buffer: a ShellState whose LogBuffer has a given capacity, as
\* LogBuffer::new builds it and as state.json can hold it; lines are appended

\* largest capacity of the buffer
MaxCap == 3

\* number of lines appended in one behaviour
MaxAppends == 6

LogLines == {"one", "two"}

\* reduce(state, ShellAction::Runtime(AppendLog(value)))
AppendLogLine ==
    /\ nacts < MaxAppends
    /\ \E value \in LogLines :
         LET a == [type |-> "AppendLog", value |-> value]
         IN shell' = reduce_runtime(shell, a) /\ last' = a
    /\ nacts' = nacts + 1
    /\ UNCHANGED <<dvars, pvars>>

LogInit ==
    /\ file = <<>>
    /\ snapStore = NoSnap
    /\ snapCli = NoSnap
    /\ pc = "idle"
    /\ ops = <<>>
    /\ proc = NoProc
    /\ appended = <<>>
    /\ nprocs = 0
    /\ nruns = 0
    /\ ntorn = 0
    /\ scope \in {s \in Scopes : s.runs = 1}
    /\ \E cap \in 0..MaxCap : shell = [NewShell EXCEPT !.logs = LogBuffer_new(cap)]
    /\ last = NoAction
    /\ nacts = 0
    /\ peval = NoEval

LogNext == AppendLogLine

LogSpec == LogInit /\ [][LogNext]_vars

----------------------------------------------------------------------------
\* The persona policy: the personality is changed, overrides are set and cleared

\* number of persona actions reduced in one behaviour
MaxPersonaActs == 4

Personalities == {"Friendly", "Pragmatic"}

\* the override actions: the field they set and the Option they carry
PersonaOverrideActions ==
    [type : {"SetPersonaOverride"}, field : {"tier_ceiling"},
     value : {None} \cup {Some(t) : t \in PolicyTiers}]
    \cup [type : {"SetPersonaOverride"}, field : {"explanation_depth"},
          value : {None} \cup {Some(d) : d \in {"Brief", "Standard", "Detailed"}}]
    \cup [type : {"SetPersonaOverride"}, field : {"output_format"},
          value : {None} \cup {Some(f) : f \in {"ImpactFirst", "TechnicalFirst"}}]

\* reduce(state, ShellAction::Runtime(SetPersonality(personality)))
SetPersonality ==
    /\ nacts < MaxPersonaActs
    /\ \E personality \in Personalities :
         LET a == [type |-> "SetPersonality", personality |-> personality]
         IN shell' = reduce_runtime(shell, a) /\ last' = a
    /\ nacts' = nacts + 1
    /\ UNCHANGED <<dvars, pvars>>

\* SetPersonaTierCeilingOverride, SetPersonaExplanationDepthOverride,
\* SetPersonaOutputFormatOverride
SetPersonaOverride ==
    /\ nacts < MaxPersonaActs
    /\ \E a \in PersonaOverrideActions :
         shell' = reduce_runtime(shell, a) /\ last' = a
    /\ nacts' = nacts + 1
    /\ UNCHANGED <<dvars, pvars>>

ClearPersonaPolicyOverrides ==
    /\ nacts < MaxPersonaActs
    /\ LET a == [type |-> "ClearPersonaPolicyOverrides"]
       IN shell' = reduce_runtime(shell, a) /\ last' = a
    /\ nacts' = nacts + 1
    /\ UNCHANGED <<dvars, pvars>>

\* ShellState::new(project_name, personality, config)
PersonaInit ==
    /\ file = <<>>
    /\ snapStore = NoSnap
    /\ snapCli = NoSnap
    /\ pc = "idle"
    /\ ops = <<>>
    /\ proc = NoProc
    /\ appended = <<>>
    /\ nprocs = 0
    /\ nruns = 0
    /\ ntorn = 0
    /\ scope \in {s \in Scopes : s.runs = 1}
    /\ \E personality \in Personalities :
         shell = [NewShell EXCEPT !.sm = NewSubjectMatter(personality)]
    /\ last = NoAction
    /\ nacts = 0
    /\ peval = NoEval

PersonaNext ==
    \/ SetPersonality
    \/ SetPersonaOverride
    \/ ClearPersonaPolicyOverrides

PersonaSpec == PersonaInit /\ [][PersonaNext]_vars

----------------------------------------------------------------------------
\* One run of the workflow driven to its end: the process is killed only
\* while another process can still be started, a killed run is resumed, and
\* a process that is not killed takes its next step (the executor and the
\* approval prompt return).

\* the one run of the behaviour is started
LiveRun ==
    /\ nruns = 0
    /\ \E cl \in CommandLines : RunWorkflow(cl.policy, cl.intent)

\* resume_workflow is invoked
LiveResume ==
    \/ ResumeNothing
    \/ \E cl \in CommandLines : ResumeInterrupted(cl.policy, cl.intent)
    \/ \E cl \in CommandLines : ResumeAwaiting(cl.policy, cl.intent)

\* the steps of a process that is not killed
LiveStep ==
    \/ DoAppend
    \/ DoSnapStore
    \/ DoSnapCli
    \/ \E approve \in BOOLEAN : ResumePrompt(approve)
    \/ Finish
    \/ GateStep
    \/ \E approve \in BOOLEAN : Prompt(approve)
    \/ \E status \in StatusLabels, diffkind \in DiffKinds : ExecuteTool(status, diffkind)
    \/ Exit

\* a kill that leaves a process to resume with
LiveKill ==
    /\ nprocs < scope.procs
    /\ \/ Kill
       \/ \E how \in {"partial", "nonl"} : KillInAppend(how)
       \/ KillInSnapshot

LiveInit ==
    /\ file = <<>>
    /\ snapStore = NoSnap
    /\ snapCli = NoSnap
    /\ pc = "idle"
    /\ ops = <<>>
    /\ proc = NoProc
    /\ appended = <<>>
    /\ nprocs = 0
    /\ nruns = 0
    /\ ntorn = 0
    /\ scope = [procs |-> MaxProcs, runs |-> 1, lines |-> CommandLines,
                statuses |-> StatusLabels]
    /\ shell = NewShell
    /\ last = NoAction
    /\ nacts = 0
    /\ peval = NoEval

LiveNext ==
    \/ LiveRun
    \/ LiveResume
    \/ LiveStep
    \/ LiveKill

LiveSpec ==
    /\ LiveInit
    /\ [][LiveNext]_vars
    /\ WF_vars(LiveStep)
    /\ WF_vars(LiveResume)

----------------------------------------------------------------------------
\* The driver started on a .dao directory it did not write itself: the files
\* hold any workflow the formats allow

\* a PersistedWorkflowRun awaiting approval, with each pending field present or not
AwaitingRuns ==
    {[FreshRun(1) EXCEPT !.status = "awaiting_approval",
                         !.pending_request_id = rq,
                         !.pending_tool_id = tl,
                         !.pending_invocation_id = iv,
                         !.next_invocation_id = 2] :
        rq \in {None, Some(RequestId(1, 1))},
        tl \in {None, Some("scan_repo")},
        iv \in {None, Some(1)}}

\* journals of one run that a WorkflowStatusChanged leaves awaiting approval,
\* without and with an ApprovalRequested before it
FoundJournals ==
    {<<[kind |-> "rec", rec |-> [seq |-> 1, event |-> WorkflowRunStarted(1, DefaultTier)]],
       [kind |-> "rec",
        rec |-> [seq |-> 2,
                 event |-> WorkflowStatusChanged(1, "awaiting_approval", 0, None)]]>>,
     <<[kind |-> "rec", rec |-> [seq |-> 1, event |-> WorkflowRunStarted(1, DefaultTier)]],
       [kind |-> "rec",
        rec |-> [seq |-> 2,
                 event |-> ApprovalRequested(RequestId(1, 1), 1, 1, "scan_repo")]],
       [kind |-> "rec",
        rec |-> [seq |-> 3,
                 event |-> WorkflowStatusChanged(1, "awaiting_approval", 0, None)]]>>}

\* what is found on disk: [file, snapCli, snapStore]
FoundDisks ==
    {[file |-> <<>>, snapCli |-> [st |-> "ok", seq |-> 0, workflow |-> Some(run)],
      snapStore |-> NoSnap] : run \in AwaitingRuns}
    \cup {[file |-> <<>>, snapCli |-> NoSnap,
           snapStore |-> [st |-> "ok", seq |-> 0, workflow |-> Some(run)]] :
            run \in AwaitingRuns}
    \cup {[file |-> f, snapCli |-> NoSnap, snapStore |-> NoSnap] : f \in FoundJournals}

ResumeInit ==
    /\ \E disk \in FoundDisks :
         file = disk.file /\ snapCli = disk.snapCli /\ snapStore = disk.snapStore
    /\ pc = "idle"
    /\ ops = <<>>
    /\ proc = NoProc
    /\ appended = <<>>
    /\ nprocs = 0
    /\ nruns = 0
    /\ ntorn = 0
    /\ scope \in {s \in Scopes : s.runs = 1}
    /\ shell = NewShell
    /\ last = NoAction
    /\ nacts = 0
    /\ peval = NoEval

ResumeSpec == ResumeInit /\ [][Next]_vars

----------------------------------------------------------------------------
\* The driver run again and again on one repository: one process more than in
\* Spec, each of them free to start a new run, plain command line, tools succeed
RerunInit ==
    /\ file = <<>>
    /\ snapStore = NoSnap
    /\ snapCli = NoSnap
    /\ pc = "idle"
    /\ ops = <<>>
    /\ proc = NoProc
    /\ appended = <<>>
    /\ nprocs = 0
    /\ nruns = 0
    /\ ntorn = 0
    /\ scope = [procs |-> MaxProcs + 1, runs |-> MaxProcs + 1,
                lines |-> {[policy |-> "none", intent |-> None]},
                statuses |-> {"succeeded"}]
    /\ shell = NewShell
    /\ last = NoAction
    /\ nacts = 0
    /\ peval = NoEval

RerunSpec == RerunInit /\ [][Next]_vars

----------------------------------------------------------------------------
\* replay_latest_workflow over the journals a store can hold: events of two
\* runs are appended one by one, and the journal is replayed after each

\* number of records of a journal
MaxReplay == 4

\* the request ids of the events, and the invocation each one asks for
ReplayRequests == {[id |-> RequestId(1, i), invocation_id |-> i] : i \in 1..2}

\* the events appended: run starts, approval requests and resolutions for
\* either run and either request id, a tool success and a status change
ReplayEvents ==
    {WorkflowRunStarted(r, DefaultTier) : r \in 1..2}
    \cup {ApprovalRequested(q.id, r, q.invocation_id, "scan_repo") :
            q \in ReplayRequests, r \in 1..2}
    \cup {ApprovalResolved(q.id, r, d) :
            q \in ReplayRequests, r \in 1..2, d \in {"approved", "denied"}}
    \cup {ToolResultRecorded(1, 1, "scan_repo", "succeeded"),
          WorkflowStatusChanged(1, "blocked", 0, Some("interrupted"))}

\* ShellEventStore::append of an event, run to its end
AppendEvent(ev) ==
    /\ Len(appended) < MaxReplay
    /\ LET rec == [seq |-> open_next_seq(file), event |-> ev]
       IN /\ file' = append_line(file, rec)
          /\ appended' = Append(appended, rec)
    /\ UNCHANGED <<snapStore, snapCli, pc, ops, proc, nprocs, nruns, ntorn, scope,
                   rvars, pvars>>

ReplayInit ==
    /\ Init
    /\ scope.runs = 1

ReplayNext == \E ev \in ReplayEvents : AppendEvent(ev)

ReplaySpec == ReplayInit /\ [][ReplayNext]_vars

----------------------------------------------------------------------------
\* Vocabulary of the properties

Events(records) == [i \in 1..Len(records) |-> records[i].event]

IsPrefix(s, t) == Len(s) <= Len(t) /\ s = SubSeq(t, 1, Len(s))

Min2(a, b) == IF a <= b THEN a ELSE b

\* the events the running process has appended so far
OwnEvents == Events(SubSeq(appended, proc.base + 1, Len(appended)))

\* the events the running process has appended since its last policy gate
StepEvents == Events(SubSeq(appended, proc.mark + 1, Len(appended)))

\* what an approved and a denied approval append for a step, in order
ApprovedPath(run_id, inv, step) ==
    <<ApprovalRequested(<<"req", run_id, inv>>, run_id, inv, TemplateSteps[step + 1]),
      ApprovalResolved(<<"req", run_id, inv>>, run_id, "approved"),
      ToolInvocationIssued(run_id, inv, TemplateSteps[step + 1])>>

DeniedPath(run_id, inv, step) ==
    <<ApprovalRequested(<<"req", run_id, inv>>, run_id, inv, TemplateSteps[step + 1]),
      ApprovalResolved(<<"req", run_id, inv>>, run_id, "denied"),
      WorkflowStatusChanged(run_id, "blocked", step, Some("approval denied"))>>

----------------------------------------------------------------------------
\* C1

\* C1: when the gate of a step yields RequireApproval, the first event the
\* driver appends for the step is ApprovalRequested with request id
\* req-{run_id}-{invocation_id}; ToolInvocationIssued for that invocation comes
\* only third, right after ApprovalResolved{approved} with the same request id
\* and run id; after a denial the step's events are exactly ApprovalRequested,
\* ApprovalResolved{denied}, WorkflowStatusChanged{Blocked} and the driver
\* returns with no ToolInvocationIssued for the step.
C1_ApprovalGate ==
    (pc # "idle" /\ proc.gate.requirement = "require_approval") =>
        LET evs == StepEvents
            head3 == SubSeq(evs, 1, Min2(3, Len(evs)))
            approved == ApprovedPath(proc.run_id, proc.inv, proc.gstep)
            denied == DeniedPath(proc.run_id, proc.inv, proc.gstep)
        IN /\ IsPrefix(head3, approved) \/ IsPrefix(head3, denied)
           /\ (pc = "prompt" /\ ops = <<>>) => evs = SubSeq(approved, 1, 1)
           /\ (pc = "exec" /\ ops = <<>>) => evs = approved
           /\ \A i \in 1..Len(evs) :
                (evs[i].kind = "ToolInvocationIssued"
                 /\ evs[i].invocation_id = proc.inv) => i = 3 /\ head3 = approved
           /\ (Len(evs) >= 2 /\ evs[2].decision = "denied") =>
                /\ pc = "exit"
                /\ IsPrefix(evs, denied)
                /\ ops = <<>> => evs = denied

\* C1 witness: an approval was requested and approved, and the tool call issued
C1_Witness ==
    /\ pc = "exec" /\ ops = <<>>
    /\ proc.gate.requirement = "require_approval"
    /\ StepEvents = ApprovedPath(proc.run_id, proc.inv, proc.gstep)
    /\ proc.prompts = 1

----------------------------------------------------------------------------
\* C2

\* the message of the policy decision for the step the process is at
DecisionMessage ==
    evaluate(ReviewPolicies[proc.policy],
             [risk_class |-> StepRisk(proc.gstep, proc.diff),
              diff_files_changed |-> IF proc.diff = "none" THEN 0 ELSE 1]).message

\* C2: when the gate of a step yields Deny, the only event the driver appends
\* for the step is WorkflowStatusChanged{Blocked} with the step's index and the
\* message of the policy decision; it then writes the snapshot and returns: no
\* ToolInvocationIssued, no ApprovalRequested, no later step.
C2_DenyBlocks ==
    (pc # "idle" /\ proc.gate.requirement = "deny") =>
        LET blocked == WorkflowStatusChanged(proc.run_id, "blocked", proc.gstep,
                                             Some(DecisionMessage))
        IN /\ pc = "exit"
           /\ proc.step = proc.gstep
           /\ IsPrefix(StepEvents, <<blocked>>)
           /\ ops = <<>> =>
                /\ StepEvents = <<blocked>>
                /\ snapStore.st = "ok" /\ snapStore.seq = proc.last_seq
                /\ snapCli = snapStore

\* C2 witness: a denied step, its Blocked event appended and the snapshot written
C2_Witness ==
    /\ pc = "exit" /\ ops = <<>>
    /\ proc.gate.requirement = "deny"
    /\ Len(StepEvents) = 1 /\ StepEvents[1].status = "blocked"
    /\ snapCli.seq = proc.last_seq

----------------------------------------------------------------------------
\* C3

\* an event that records a policy block or an approval denial
Denial(ev) ==
    \/ ev.kind = "WorkflowStatusChanged" /\ ev.status = "blocked"
       /\ ev.reason # Some("tool execution did not succeed")
    \/ ev.kind = "ApprovalResolved" /\ ev.decision = "denied"

\* C3: a resume that loads a run whose status is Completed, Failed, or Blocked
\* with a reason other than "interrupted" is the branch that appends nothing
\* and runs no tool; and once a Blocked status from a policy Deny or an approval
\* denial has been appended for a run, no ToolInvocationIssued with that run id
\* is appended afterwards, whatever commands follow.
C3_BlockedRunStaysBlocked ==
    /\ pc = "idle" =>
         LET view == load_latest_run(file, snapCli, snapStore)
         IN (~view.err /\ IsSome(view.run)
             /\ (\/ Unwrap(view.run).status \in {"completed", "failed"}
                 \/ /\ Unwrap(view.run).status = "blocked"
                    /\ Unwrap(view.run).blocked_reason # Some("interrupted")))
            => ResumeBranch(view) = "nothing"
    /\ \A i, j \in 1..Len(appended) :
         (i < j /\ Denial(appended[i].event)
          /\ appended[j].event.kind = "ToolInvocationIssued")
         => appended[j].event.run_id # appended[i].event.run_id

----------------------------------------------------------------------------
\* C4

\* an event after which the run is no longer in progress
Terminal(ev) ==
    \/ ev.kind = "WorkflowStatusChanged"
       /\ ev.status \in {"completed", "failed", "blocked"}
    \/ ev.kind = "ApprovalResolved" /\ ev.decision = "denied"

\* WorkflowRunStarted of the latest run was appended and nothing ended the run since
RunInProgress ==
    \E i \in 1..Len(appended) :
        /\ appended[i].event.kind = "WorkflowRunStarted"
        /\ \A j \in (i + 1)..Len(appended) :
             /\ appended[j].event.kind # "WorkflowRunStarted"
             /\ ~Terminal(appended[j].event)

\* C4: whenever the driver process is gone while the run is in progress, killed
\* at whatever point (between an append and its snapshot included), the run that
\* resume reconstructs is Running, Blocked with reason "interrupted", or
\* AwaitingApproval with its pending triple: resume proceeds, it neither fails
\* nor reports that there is nothing to resume.
C4_KilledRunIsResumable ==
    (pc = "idle" /\ RunInProgress) =>
        ResumeBranch(load_latest_run(file, snapCli, snapStore)) \in {"resume", "approval"}

----------------------------------------------------------------------------
\* C5

\* the run replayed from the whole journal
FullReplay == replay_latest_workflow(load_records(file))

\* the run replayed from the snapshot file and the journal tail after its seq
SnapshotReplay == replay_workflow_from(snapCli.workflow, load_since(file, snapCli.seq))

\* the process has written snapshot.json and it is still the file on disk
OwnSnapshotOnDisk == pc # "idle" /\ proc.snap_buf.st = "ok" /\ snapCli = proc.snap_buf

----------------------------------------------------------------------------
\* C6

\* C6: a resume that loads an AwaitingApproval run finds the pending request id,
\* tool and invocation id of the step it waits at; when the prompt approves, the
\* driver appends ApprovalResolved{approved} and WorkflowResumed and goes on
\* with the pending step under the pending invocation id, appending no further
\* ApprovalRequested for that invocation and prompting no second time.
C6_ResumeApprovedRunsPendingStep ==
    (pc # "idle" /\ proc.cmd = "resume" /\ IsSome(proc.resumed)
     /\ Unwrap(proc.resumed).status = "awaiting_approval") =>
        LET run == Unwrap(proc.resumed)
            inv == Unwrap(run.pending_invocation_id)
            evs == OwnEvents
        IN /\ run.pending_request_id = Some(<<"req", run.run_id, inv>>)
           /\ run.pending_tool_id = Some(TemplateSteps[run.step_index + 1])
           /\ (pc \notin {"resume_prompt", "exit"}) =>
                 IsPrefix(SubSeq(evs, 1, Min2(2, Len(evs))),
                          <<ApprovalResolved(<<"req", run.run_id, inv>>, run.run_id,
                                             "approved"),
                            WorkflowResumed(run.run_id)>>)
           /\ \A i \in 1..Len(evs) :
                ~(evs[i].kind = "ApprovalRequested" /\ evs[i].invocation_id = inv)
           /\ (proc.step = proc.start_step) => proc.prompts <= 1

----------------------------------------------------------------------------
\* C7

\* the tools of run_id with a ToolResultRecorded{succeeded} among the records
SucceededTools(records, run_id) ==
    {records[i].event.tool_id : i \in {k \in 1..Len(records) :
        /\ records[k].event.kind = "ToolResultRecorded"
        /\ records[k].event.run_id = run_id
        /\ records[k].event.status = "succeeded"}}

\* the process resumed a run it loaded as Running or as Blocked/"interrupted"
ResumedInterrupted ==
    /\ pc # "idle" /\ proc.cmd = "resume" /\ IsSome(proc.resumed)
    /\ Unwrap(proc.resumed).status \in {"running", "blocked"}

\* C7: a resume of a Running or Blocked/"interrupted" run appends WorkflowResumed
\* first and only once, and enters the step loop at the replayed step_index with
\* the replayed next_invocation_id: the steps before it are those with a
\* recorded ToolResultRecorded{succeeded}, the step it starts at has none, and
\* no tool whose success was appended for the run is issued again.
C7_ResumeContinuesAtFirstOpenStep ==
    /\ ResumedInterrupted =>
         LET run == Unwrap(proc.resumed)
             evs == OwnEvents
         IN /\ proc.start_step = run.step_index
            /\ Len(evs) >= 1 => evs[1] = WorkflowResumed(run.run_id)
            /\ \A i \in 2..Len(evs) : evs[i].kind # "WorkflowResumed"
            /\ Len(evs) >= 2 =>
                 /\ evs[2].kind \in {"ToolInvocationIssued", "ApprovalRequested",
                                     "WorkflowStatusChanged"}
                 /\ evs[2].kind \in {"ToolInvocationIssued", "ApprovalRequested"} =>
                      /\ evs[2].invocation_id = run.next_invocation_id
                      /\ evs[2].tool_id = IF run.step_index < NumSteps
                                           THEN TemplateSteps[run.step_index + 1]
                                           ELSE "git_commit"
            /\ (evs = <<>> /\ ops # <<>>) =>
                 LET done == SucceededTools(load_records(file), run.run_id)
                 IN /\ \A k \in 0..(run.step_index - 1) : TemplateSteps[k + 1] \in done
                    /\ run.step_index < NumSteps =>
                         TemplateSteps[run.step_index + 1] \notin done
    /\ \A i, j \in 1..Len(appended) :
         (/\ i < j
          /\ appended[i].event.kind = "ToolResultRecorded"
          /\ appended[i].event.status = "succeeded"
          /\ appended[j].event.kind = "ToolInvocationIssued")
         => \/ appended[j].event.run_id # appended[i].event.run_id
            \/ appended[j].event.tool_id # appended[i].event.tool_id

----------------------------------------------------------------------------
\* C8

\* the three events of a step whose tool succeeds
StepTriple(run_id, k) ==
    <<ToolInvocationIssued(run_id, k + 1, TemplateSteps[k + 1]),
      ToolResultRecorded(run_id, k + 1, TemplateSteps[k + 1], "succeeded"),
      WorkflowStatusChanged(run_id, "running", k + 1, None)>>

\* the events of the four steps
StepsEvents(run_id) ==
    StepTriple(run_id, 0) \o StepTriple(run_id, 1) \o StepTriple(run_id, 2)
    \o StepTriple(run_id, 3)

HappyPathEvents(run_id) ==
    <<WorkflowRunStarted(run_id, "balanced")>> \o StepsEvents(run_id)
    \o <<WorkflowStatusChanged(run_id, "completed", 4, None)>>

HappyPathEventsWithCommit(run_id) ==
    <<WorkflowRunStarted(run_id, "balanced")>> \o StepsEvents(run_id)
    \o <<ToolInvocationIssued(run_id, 5, "git_commit"),
         WorkflowStatusChanged(run_id, "completed", 4, None)>>

\* what replay returns for a completed run
CompletedRun(run_id) ==
    [run_id |-> run_id, step_index |-> 4, status |-> "completed",
     pending_request_id |-> None, pending_tool_id |-> None,
     pending_invocation_id |-> None, next_invocation_id |-> 5,
     blocked_reason |-> None]

\* a `run` without policy file has gone from its start to its end, every tool succeeding
UninterruptedRunDone ==
    /\ pc = "exit" /\ ops = <<>>
    /\ proc.cmd = "run" /\ proc.policy = "none"
    /\ appended[Len(appended)].event.status = "completed"

----------------------------------------------------------------------------
\* C9

\* every write to the journal so far was a whole append call
JournalIntact == \A i \in 1..Len(file) : file[i].kind = "rec"

\* C9: over any sequence of open and append calls (the store closed and
\* reopened between processes), the seqs append returns are 1, 2, 3, ... with
\* no gap and no repeat; a store just opened has next_seq one above the largest
\* seq of the file (1 for none); and load returns every appended record, in
\* increasing seq order.
C9_SeqGapFree ==
    JournalIntact =>
        /\ \A i \in 1..Len(appended) : appended[i].seq = i
        /\ load_records(file) = appended
        /\ open_next_seq(file) = MaxSeq(load_records(file)) + 1
        /\ open_next_seq(file) = Len(appended) + 1
        /\ pc # "idle" => proc.next_seq = Len(appended) + 1

\* C9 witness: a second process has reopened the journal and appended to it
C9_Witness ==
    /\ JournalIntact
    /\ pc # "idle" /\ nprocs = 2
    /\ proc.base >= 3
    /\ Len(appended) >= proc.base + 2

----------------------------------------------------------------------------
\* C10

\* C10: load skips a partial last line without error and returns every record
\* written whole; every record for which append has returned, before or after
\* the journal was reopened on a partial last line, is returned by load: a
\* partial line costs no appended record.
C10_PartialLineLosesNothing ==
    LET loaded == load_records(file)
    IN /\ \A i \in 1..Len(file) :
            file[i].kind = "rec" => \E k \in 1..Len(loaded) : loaded[k] = file[i].rec
       /\ \A i \in 1..Len(appended) :
            \E k \in 1..Len(loaded) : loaded[k] = appended[i]

----------------------------------------------------------------------------
\* C11

\* C11: a snapshot read that follows a write cut by a crash sees a whole
\* snapshot, the previous one or the new one: with no driver process running,
\* the read of resume (load_snapshot_preferred) parses, and so does the read of
\* the store's own file (load_snapshot).
C11_SnapshotReadIsWhole ==
    pc = "idle" =>
        /\ ~load_snapshot_preferred(snapCli, snapStore).err
        /\ ~load_snapshot_preferred(NoSnap, snapStore).err

----------------------------------------------------------------------------
\* C12

\* the journal records with seq at most s
load_upto(f, s) == SelectSeq(load_records(f), LAMBDA r : r.seq <= s)

\* what save_snapshots stores for the records given
Projection(records) ==
    LET latest == replay_latest_workflow(records)
    IN IF IsSome(latest) THEN Some(Demote(Unwrap(latest))) ELSE None

\* snap holds no more than the journal and summarizes the records up to its seq
Summarizes(snap) ==
    snap.st = "ok" =>
        /\ snap.seq <= MaxSeq(load_records(file))
        /\ snap.workflow = Projection(load_upto(file, snap.seq))

\* C12: each snapshot file on disk has a seq that is at most the highest seq of
\* the journal and a workflow that is the demoted projection of exactly the
\* journal records up to that seq; and when save_snapshots has just written a
\* file, its seq is the highest seq of the journal.
C12_SnapshotAfterEvent ==
    /\ Summarizes(snapStore)
    /\ Summarizes(snapCli)
    /\ (pc # "idle" /\ ops # <<>> /\ Head(ops).op = "snap_cli") =>
          snapStore.seq = MaxSeq(load_records(file))
    /\ (OwnSnapshotOnDisk /\ proc.last_seq = snapCli.seq) =>
          snapCli.seq = MaxSeq(load_records(file))

----------------------------------------------------------------------------
\* C13

\* (run_id, artifact_id) of a is at most that of b, lexicographically
TupleLeq(a, b) ==
    a.run_id < b.run_id \/ (a.run_id = b.run_id /\ a.artifact_id <= b.artifact_id)

SameTuple(a, b) == a.run_id = b.run_id /\ a.artifact_id = b.artifact_id

\* the stored artifact of kind k after the Set...Artifact actions for a, then b
StoredAfter(k, a, b) == StoreArtifact(StoreArtifact(shell.artifacts[k], a), b)

\* the kinds whose stored artifact the last action may have changed
KindsTouched ==
    IF last.type = "SetArtifact" THEN {last.kind}
    ELSE IF nacts = 0 THEN ArtifactKinds ELSE {}

\* C13: for each kind and any two artifacts a and b, setting both in either
\* order on top of the stored artifact leaves an artifact whose
\* (run_id, artifact_id) is the lexicographic maximum of the two and of the one
\* stored before; the artifact with the strictly larger tuple is the one stored;
\* and one Set...Artifact never lowers the stored tuple.
C13_ArtifactStalenessGuard ==
    \A k \in KindsTouched : \A a, b \in Artifacts(k) :
        LET cur == shell.artifacts[k]
            ab == StoredAfter(k, a, b)
            ba == StoredAfter(k, b, a)
        IN /\ IsSome(ab) /\ IsSome(ba)
           /\ SameTuple(Unwrap(ab), Unwrap(ba))
           /\ TupleLeq(a, Unwrap(ab)) /\ TupleLeq(b, Unwrap(ab))
           /\ IsSome(cur) => TupleLeq(Unwrap(cur), Unwrap(ab))
           /\ \/ SameTuple(Unwrap(ab), a) \/ SameTuple(Unwrap(ab), b)
              \/ (IsSome(cur) /\ Unwrap(ab) = Unwrap(cur))
           /\ (~TupleLeq(a, b) /\ (IsSome(cur) => TupleLeq(Unwrap(cur), a))
               /\ (IsSome(cur) => ~SameTuple(Unwrap(cur), a))) =>
                 (ab = Some(a) /\ ba = Some(a))
           /\ LET one == StoredAfter(k, a, a)
              IN IsSome(cur) => TupleLeq(Unwrap(cur), Unwrap(one))

\* C13 witness: a Set...Artifact with an older tuple than the stored one was
\* reduced and dropped
C13_Witness ==
    /\ last.type = "SetArtifact"
    /\ IsSome(shell.artifacts[last.kind])
    /\ ~TupleLeq(Unwrap(shell.artifacts[last.kind]), last.artifact)
    /\ Unwrap(shell.artifacts[last.kind]).run_id = last.artifact.run_id

----------------------------------------------------------------------------
\* C14

\* max(pending.run_id, last_decision.run_id), 0 when there is neither
LatestApprovalRun == MaxOf(PendingRuns(shell) \cup DecisionRuns(shell))

AfterRequest(q) == reduce_runtime(shell, [type |-> "RequestApproval", request |-> q])

\* C14: a RequestApproval whose run_id is lower than
\* max(pending.run_id, last_decision.run_id) changes nothing: pending request,
\* last_gate, last_decision, next_request_seq, runtime flags, log buffer and
\* journey are as before.
C14_StaleRequestIsNoOp ==
    \A q \in Requests : q.run_id < LatestApprovalRun => AfterRequest(q) = shell

\* C14 as the reducer has it: the run_id compared is max(run_id, 1), so a
\* request for run 0 counts as one for run 1
C14_StaleRequestIsNoOpNormalized ==
    \A q \in Requests : Max2(q.run_id, 1) < LatestApprovalRun => AfterRequest(q) = shell

\* C14 witness: a request for a run older than the one last decided or pending
\* was reduced
C14_Witness ==
    /\ last.type = "RequestApproval"
    /\ Max2(last.request.run_id, 1) < LatestApprovalRun
    /\ IsSome(shell.pending)
    /\ Unwrap(shell.pending).request_id # last.request.request_id

----------------------------------------------------------------------------
\* C15

AfterResolve(d) == reduce_runtime(shell, [type |-> "ResolveApproval", decision |-> d])

\* a request is pending and both its request_id and its run_id are the decision's
PendingIs(d) ==
    /\ shell.pending # None
    /\ shell.pending[1].request_id = d.request_id
    /\ shell.pending[1].run_id = d.run_id

\* C15: ResolveApproval changes nothing unless the pending request has the
\* decision's request_id and run_id; when it has, pending becomes None and
\* last_decision is the decision.
C15_ResolveOnlyThePending ==
    \A d \in Decisions :
        IF PendingIs(d)
        THEN AfterResolve(d).pending = None /\ AfterResolve(d).last_decision = Some(d)
        ELSE AfterResolve(d) = shell

\* C15 witness: a decision with the pending request's id and another run_id was
\* reduced, and the request is still pending
C15_Witness ==
    /\ last.type = "ResolveApproval"
    /\ IsSome(shell.pending)
    /\ Unwrap(shell.pending).request_id = last.decision.request_id
    /\ Unwrap(shell.pending).run_id # last.decision.run_id
    /\ last.decision.run_id >= 1

----------------------------------------------------------------------------
\* C16

\* C16: a ResolveApproval that matches the pending request leaves, in the same
\* reducer step, pending None and the awaiting_approval flag inactive.
C16_ResolveClearsFlagToo ==
    \A d \in Decisions :
        PendingIs(d) =>
            /\ AfterResolve(d).pending = None
            /\ ~AfterResolve(d).flags["awaiting_approval"].active

----------------------------------------------------------------------------
\* C17

\* C17: in every state reached from ShellState::new through reduce, the
\* journey status (state, step, active_run_id) is derive_journey of the
\* artifacts, runtime flags, approval state and journey error, and
\* routing.journey is the journey step.
C17_JourneyIsDerived ==
    /\ shell.journey = derive_journey(shell)
    /\ shell.routing_journey = shell.journey.step

\* C17 witness: actions that set no journey directly have brought the journey
\* to Completed, and the last action was one that does not recompute it
C17_Witness ==
    /\ shell.journey.state = "Completed"
    /\ shell.routing_journey = "Learn"
    /\ last.type \in {"AssessPolicyGate", "AppendLog", "SetPolicyTier"}

----------------------------------------------------------------------------
\* C18

\* the run ids over which active_run_id is the maximum
RunsInPlay ==
    {shell.flags[f].run_id : f \in {g \in RuntimeFlagNames : shell.flags[g].active}}
    \cup {shell.artifacts[k][1].run_id : k \in {j \in ArtifactKinds : shell.artifacts[j] # None}}
    \cup {shell.pending[i].run_id : i \in DOMAIN shell.pending}

ActiveRun == IF RunsInPlay = {} THEN 0 ELSE CHOOSE m \in RunsInPlay : \A x \in RunsInPlay : x <= m

\* an active flag; on the active run when onActiveRun is set
Flag(f, onActiveRun) ==
    shell.flags[f].active /\ (onActiveRun => shell.flags[f].run_id = ActiveRun)

\* the rules in their order; lowFlagsOnActiveRun tells whether the diffing,
\* planning and scanning rules ask for the flag to be on the active run
JourneyRules(lowFlagsOnActiveRun) ==
    <<[fires |-> shell.error # None /\ shell.error[1].run_id = ActiveRun,
       state |-> "Failed"],
      [fires |-> \/ shell.pending # None /\ shell.pending[1].run_id = ActiveRun
                 \/ Flag("awaiting_approval", TRUE),
       state |-> "AwaitingApproval"],
      [fires |-> Flag("verifying", TRUE), state |-> "Verifying"],
      [fires |-> Flag("diffing", lowFlagsOnActiveRun), state |-> "Diffing"],
      [fires |-> Flag("planning", lowFlagsOnActiveRun), state |-> "Planning"],
      [fires |-> Flag("scanning", lowFlagsOnActiveRun), state |-> "Scanning"],
      [fires |-> /\ shell.artifacts["verify"] # None
                 /\ shell.artifacts["verify"][1].run_id = ActiveRun
                 /\ shell.artifacts["verify"][1].overall = "Passing",
       state |-> "Completed"],
      [fires |-> /\ shell.artifacts["diff"] # None
                 /\ shell.artifacts["diff"][1].run_id = ActiveRun,
       state |-> "ReviewReady"],
      [fires |-> TRUE, state |-> "Idle"]>>

\* the state of the first rule that fires
FirstRule(rules) ==
    rules[CHOOSE i \in 1..Len(rules) :
            rules[i].fires /\ \A j \in 1..(i - 1) : ~rules[j].fires].state

----------------------------------------------------------------------------
\* C19

\* the pipeline order of the journey states
PipelineOrder ==
    <<"Idle", "Scanning", "Planning", "Diffing", "ReviewReady", "AwaitingApproval",
      "Verifying", "Completed">>

Rank(st) == CHOOSE i \in 1..Len(PipelineOrder) : PipelineOrder[i] = st

\* C19: in every reachable state, no Set...Artifact action takes the journey
\* state to an earlier state of the pipeline order.
C19_ArtifactNeverMovesJourneyBack ==
    \A a \in SetArtifactActions :
        LET before == shell.journey.state
            after == reduce_runtime(shell, a).journey.state
        IN (before # "Failed" /\ after # "Failed") => Rank(after) >= Rank(before)

----------------------------------------------------------------------------
\* C20

\* the static table, by tier and risk
GateTable ==
    [strict |-> ("read-only" :> "allow" @@ "patch-only" :> "require_approval"
                 @@ "refactor" :> "require_approval" @@ "execution" :> "require_approval"
                 @@ "destructive" :> "deny"),
     balanced |-> ("read-only" :> "allow" @@ "patch-only" :> "allow"
                   @@ "refactor" :> "allow" @@ "execution" :> "require_approval"
                   @@ "destructive" :> "require_approval"),
     permissive |-> ("read-only" :> "allow" @@ "patch-only" :> "allow"
                     @@ "refactor" :> "allow" @@ "execution" :> "allow"
                     @@ "destructive" :> "require_approval")]

\* the gate that AssessPolicyGate leaves for a risk in the current state
GateFor(risk) ==
    reduce_runtime(shell, [type |-> "AssessPolicyGate", run_id |-> 1,
                           action |-> "execute", risk |-> risk,
                           reason |-> "why"]).last_gate[1]

\* C20: with no review policy active, the gate requirement that
\* AssessPolicyGate stores for the state's tier and a risk is the entry of the
\* static table; and policy_requirement_for_risk is that table.
C20_StaticGateTable ==
    /\ \A t \in PolicyTiers, risk \in RiskClasses :
          policy_requirement_for_risk(t, risk) = GateTable[t][risk]
    /\ shell.active_policy = "none" =>
          \A risk \in RiskClasses :
              GateFor(risk).requirement = GateTable[shell.policy_tier][risk]

\* C20 witness: under the Strict tier and no review policy, the gate of a
\* Destructive action was assessed and is Deny
C20_Witness ==
    /\ last.type = "AssessPolicyGate"
    /\ last.risk = "destructive"
    /\ shell.policy_tier = "strict"
    /\ shell.active_policy = "none"
    /\ shell.last_gate # None
    /\ shell.last_gate[1].requirement = "deny"

----------------------------------------------------------------------------
\* C21

\* the requirement that stands for a decision of a review policy
RequirementOf(decision) ==
    CASE decision = "allowed" -> "allow"
      [] decision = "blocked" -> "deny"
      [] decision = "approval_required" -> "require_approval"

\* the signals of the current state for an action of the given risk
SignalsNow(risk) ==
    [risk_class |-> risk,
     diff_files_changed |-> IF IsSome(shell.artifacts["diff"]) THEN 1 ELSE 0]

\* the gate that AssessPolicyGate leaves for a risk when the tier is t
GateUnderTier(t, risk) ==
    reduce_runtime([shell EXCEPT !.policy_tier = t],
                   [type |-> "AssessPolicyGate", run_id |-> 1, action |-> "execute",
                    risk |-> risk, reason |-> "why"]).last_gate[1]

\* C21: when a review policy is active, the requirement that AssessPolicyGate
\* stores is the one of the policy's decision on the current signals, whatever
\* the policy tier is.
C21_ReviewPolicyOverridesTable ==
    shell.active_policy # "none" =>
        \A risk \in RiskClasses, t \in PolicyTiers :
            GateUnderTier(t, risk).requirement =
                RequirementOf(evaluate(ReviewPolicies[shell.active_policy],
                                       SignalsNow(risk)).decision)

\* C21 witness: a policy that blocks execution is active under the Permissive
\* tier, whose table allows execution, and the gate assessed is Deny
C21_Witness ==
    /\ last.type = "AssessPolicyGate"
    /\ last.risk = "execution"
    /\ shell.active_policy = "block_exec"
    /\ shell.policy_tier = "permissive"
    /\ shell.last_gate # None
    /\ shell.last_gate[1].requirement = "deny"
    /\ policy_requirement_for_risk(shell.policy_tier, last.risk) = "allow"

----------------------------------------------------------------------------
\* C22

\* the tools of the registry
ToolIds == {"scan_repo", "generate_plan", "compute_diff", "verify"}

\* strict < balanced < permissive
TierOrder == <<"strict", "balanced", "permissive">>

TierPosition(t) == CHOOSE i \in 1..Len(TierOrder) : TierOrder[i] = t

\* C22: for every tier and every tool, when the tier is below the tool's
\* min_tier the verdict is Deny with reason "policy tier below tool minimum";
\* otherwise the verdict is the entry of the static table for the tool's risk
\* class.  (Stated for every tier, and in particular the tier of the state.)
C22_MinTierDenies ==
    \A t \in PolicyTiers \cup {shell.policy_tier}, tool \in ToolIds :
        LET sim == simulate_tool(t, tool)
        IN IF TierPosition(t) < TierPosition(MinTier(tool))
           THEN sim.requirement = "deny"
                /\ sim.reason = "policy tier below tool minimum"
           ELSE sim.requirement = GateTable[t][RiskClass(tool)]

\* C22 witness: the tier has been set to Strict, below the minimum of
\* compute_diff, whose risk class the table of Strict would only send to
\* approval; the verdict is Deny with the reason of the minimum
C22_Witness ==
    /\ last.type = "SetPolicyTier"
    /\ shell.policy_tier = "strict"
    /\ MinTier("compute_diff") = "balanced"
    /\ GateTable["strict"][RiskClass("compute_diff")] = "require_approval"
    /\ simulate_tool(shell.policy_tier, "compute_diff").requirement = "deny"
    /\ simulate_tool(shell.policy_tier, "compute_diff").reason =
           "policy tier below tool minimum"

----------------------------------------------------------------------------
\* C23

\* the policy, signals and decision of the evaluation recorded in peval
EvalPolicy == Unwrap(peval.policy)

EvalSignals == Unwrap(peval.signals)

EvalDecision == Unwrap(peval.decision)

\* the expression of rule i evaluates without error, and to true
ConditionTrue(i) ==
    LET r == eval_boolean_with_context(EvalPolicy.rules[i].when, EvalSignals)
    IN r.ok /\ r.value

\* the expression of rule i fails to evaluate
ConditionErrors(i) ==
    ~eval_boolean_with_context(EvalPolicy.rules[i].when, EvalSignals).ok

MatchingRules == {i \in 1..Len(EvalPolicy.rules) : ConditionTrue(i)}

FirstMatching == CHOOSE i \in MatchingRules : \A j \in MatchingRules : i <= j

\* C23: evaluate returns the decision of the first rule in declaration order
\* whose `when` evaluates to true; with no such rule, Allowed under
\* allow_by_default and ApprovalRequired with the policy's default approval
\* config under deny_by_default; a rule whose `when` fails to evaluate does not
\* match and the rules after it are still evaluated.
C23_FirstMatchOrDefault ==
    peval.decision # None =>
        IF MatchingRules # {}
        THEN /\ EvalDecision.decision = EvalPolicy.rules[FirstMatching].then
             /\ EvalDecision.matched_rule_id = Some(EvalPolicy.rules[FirstMatching].id)
        ELSE /\ EvalDecision.matched_rule_id = None
             /\ EvalPolicy.mode = "allow_by_default" =>
                    EvalDecision.decision = "allowed"
             /\ EvalPolicy.mode = "deny_by_default" =>
                    /\ EvalDecision.decision = "approval_required"
                    /\ EvalDecision.requirements = Some(EvalPolicy.defaults)

\* C23 witness: the first rule's expression fails to evaluate, the second
\* rule's holds, and the decision returned is the second rule's
C23_Witness ==
    /\ peval.decision # None
    /\ Len(EvalPolicy.rules) = 2
    /\ ConditionErrors(1)
    /\ ConditionTrue(2)
    /\ EvalPolicy.rules[1].then = "allowed"
    /\ EvalPolicy.rules[2].then = "blocked"
    /\ EvalDecision.decision = "blocked"
    /\ EvalDecision.matched_rule_id = Some(RuleId(2))

----------------------------------------------------------------------------
\* C24

\* the diff deletes a file
DeletesFile(text) == text.new = "/dev/null"

\* the gate of the verify step under the Strict tier with no review policy,
\* when the diff step has produced the given diff
VerifyGateUnderStrict(text) ==
    LET diff == analyze_risk(legacy_diff_files_from_text(text))
    IN AssessPolicyGate("none", "strict", StepRisk(NumSteps - 1, diff),
                        simulate_tool_reason("strict", "verify"), diff)

\* C24: when the diff step returns a diff that deletes a file, the risk
\* that the verify step reads from the artifact is Destructive, and under the
\* Strict tier with no review policy the gate of verify is Deny with the
\* reason "blocked by risk policy" (on which the driver appends Blocked and stops).
C24_StrictBlocksDestructiveDiff ==
    (pc = "exec" /\ ops = <<>> /\ TemplateSteps[proc.step + 1] = "compute_diff"
     /\ proc.policy = "none") =>
        \A text \in DiffTexts :
            DeletesFile(text) =>
                /\ analyze_risk(legacy_diff_files_from_text(text)) = "destructive"
                /\ VerifyGateUnderStrict(text).requirement = "deny"
                /\ VerifyGateUnderStrict(text).reason = "blocked by risk policy"

----------------------------------------------------------------------------
\* C25

\* C25: the reducer never fails: in every state reached from ShellState::new,
\* reduce returns normally for every user action (no panic on an index out of
\* bounds or on an arithmetic overflow).
C25_ReducerNeverFails ==
    \A a \in UserActions : ~reduce_user(shell, a, scope.overflow_checks).panic

----------------------------------------------------------------------------
\* C26

ToolFailureReason == Some("tool execution did not succeed")

\* the event is the result of a tool that did not succeed
FailedResult(ev) == ev.kind = "ToolResultRecorded" /\ ev.status # "succeeded"

\* the event closes a run after a tool that did not succeed
FailureStatus(ev) ==
    /\ ev.kind = "WorkflowStatusChanged"
    /\ ev.status \in {"failed", "blocked"}
    /\ ev.reason = ToolFailureReason

\* what the running process does after a result that is not Succeeded: the
\* result is followed by the status change, which is the last event of the
\* process, and the snapshot of that event is on disk when the command returns
FailureIsRecorded ==
    pc # "idle" =>
        \A i \in 1..Len(OwnEvents) :
            FailedResult(OwnEvents[i]) =>
                /\ i = Len(OwnEvents) => (ops # <<>> /\ Head(ops).op = "append"
                                          /\ FailureStatus(Head(ops).ev))
                /\ i < Len(OwnEvents) =>
                      /\ i + 1 = Len(OwnEvents)
                      /\ OwnEvents[i + 1] =
                           WorkflowStatusChanged(OwnEvents[i].run_id,
                                                 OwnEvents[i].status,
                                                 proc.step + 1, ToolFailureReason)
                      /\ ops = <<>> =>
                           /\ pc = "exit"
                           /\ snapCli = save_snapshots(file, proc.last_seq)
                           /\ snapStore = snapCli

\* once the status change of a failed tool is in the journal no command
\* continues the run: an event with its run_id after it belongs to a later run,
\* which starts with its own WorkflowRunStarted
FailedRunIsTerminal ==
    \A i \in 1..Len(appended) :
        FailureStatus(appended[i].event) =>
            \A j \in (i + 1)..Len(appended) :
                appended[j].event.run_id = appended[i].event.run_id =>
                    \E k \in (i + 1)..j :
                        /\ appended[k].event.kind = "WorkflowRunStarted"
                        /\ appended[k].event.run_id = appended[i].event.run_id

\* C26: when the executor returns a status other than Succeeded, the driver
\* appends ToolResultRecorded with that status, then WorkflowStatusChanged
\* {Failed or Blocked} with a reason, writes the snapshot and invokes no
\* further tool; the run is terminal: no later command appends to it.
C26_FailedToolEndsRun == FailureIsRecorded /\ FailedRunIsTerminal

\* C26 witness: a run whose first tool failed has written the result, the
\* status change and the snapshot, and a resume after it has found nothing to do
C26_Witness ==
    /\ pc = "idle"
    /\ nruns = 1 /\ nprocs = 2
    /\ Len(appended) = 4
    /\ FailedResult(appended[3].event)
    /\ appended[3].event.status = "failed"
    /\ appended[4].event = WorkflowStatusChanged(1, "failed", 1, ToolFailureReason)
    /\ snapCli.st = "ok" /\ snapCli.seq = 4
    /\ ResumeBranch(load_latest_run(file, snapCli, snapStore)) = "nothing"

----------------------------------------------------------------------------
\* C27

\* what resume loads in the current state
LoadedView == load_latest_run(file, snapCli, snapStore)

\* the run that resume loads awaits approval and lacks a pending field
MalformedAwaiting ==
    /\ ~LoadedView.err
    /\ IsSome(LoadedView.run)
    /\ Unwrap(LoadedView.run).status = "awaiting_approval"
    /\ \/ Unwrap(LoadedView.run).pending_request_id = None
       \/ Unwrap(LoadedView.run).pending_tool_id = None
       \/ Unwrap(LoadedView.run).pending_invocation_id = None

\* C27: when the run that resume loads is AwaitingApproval and one of its
\* pending fields is None, resume returns the "malformed resume state" error
\* (exit code 2): no resume that prompts or appends can start, and the resume
\* that starts leaves the files, the journal and the process as they are.
C27_MalformedResumeFails ==
    [][(pc = "idle" /\ MalformedAwaiting) =>
          /\ ResumeBranch(LoadedView) = "malformed"
          /\ exit_code(ResumeBranch(LoadedView)) = 2
          /\ nruns' = nruns =>
                /\ pc' = "idle" /\ ops' = <<>> /\ proc' = NoProc
                /\ appended' = appended /\ file' = file
                /\ snapCli' = snapCli /\ snapStore' = snapStore]_vars

\* C27 witness: a resume has returned on a snapshot whose run awaits approval
\* with a request and a tool but no invocation id
C27_Witness ==
    /\ pc = "idle" /\ nprocs = 1 /\ nruns = 0
    /\ MalformedAwaiting
    /\ Unwrap(LoadedView.run).pending_request_id # None
    /\ Unwrap(LoadedView.run).pending_tool_id # None
    /\ Unwrap(LoadedView.run).pending_invocation_id = None
    /\ appended = <<>>

----------------------------------------------------------------------------
\* C28

\* the log as load returns it
Journal == load_records(file)

\* the offset of a tool in the template, NumSteps for a tool that is not in it
StepOf(tool) ==
    IF \E k \in 0..(NumSteps - 1) : TemplateSteps[k + 1] = tool
    THEN CHOOSE k \in 0..(NumSteps - 1) : TemplateSteps[k + 1] = tool
    ELSE NumSteps

\* the event is ToolResultRecorded{succeeded} of run_id for the step k
SucceededStep(ev, run_id, k) ==
    /\ ev.kind = "ToolResultRecorded"
    /\ ev.status = "succeeded"
    /\ ev.run_id = run_id
    /\ StepOf(ev.tool_id) = k

\* ToolInvocationIssued for a step past the first comes only after the success
\* of every step before it, for the same run
IssuedInTemplateOrder(evs) ==
    \A j \in 1..Len(evs) :
        evs[j].kind = "ToolInvocationIssued" =>
            \A k \in 0..(StepOf(evs[j].tool_id) - 1) :
                \E i \in 1..(j - 1) : SucceededStep(evs[i], evs[j].run_id, k)

\* every step_index written to the log is an offset between 0 and NumSteps
StepIndexInRange(evs) ==
    \A i \in 1..Len(evs) :
        evs[i].kind = "WorkflowStatusChanged" => evs[i].step_index \in 0..NumSteps

\* no step of a run has two ToolResultRecorded{succeeded}
OneSuccessPerStep(evs) ==
    \A i, j \in 1..Len(evs) :
        (i < j /\ evs[i].kind = "ToolResultRecorded" /\ evs[i].status = "succeeded")
        => ~SucceededStep(evs[j], evs[i].run_id, StepOf(evs[i].tool_id))

\* C28: within a run the tools are executed in the template order scan_repo,
\* generate_plan, compute_diff, verify: ToolInvocationIssued for a step is
\* appended only after ToolResultRecorded{succeeded} of the steps before it, no
\* step is skipped, every step_index in the log lies between 0 and 4, and each
\* step has at most one ToolResultRecorded{succeeded} per run, across crash
\* and resume included.
C28_TemplateOrderOncePerStep ==
    LET evs == Events(Journal)
    IN IssuedInTemplateOrder(evs) /\ StepIndexInRange(evs) /\ OneSuccessPerStep(evs)

----------------------------------------------------------------------------
\* C29

\* the run replayed from the journal before and after the step
ReplayedBefore == replay_latest_workflow(load_records(file))

ReplayedAfter == replay_latest_workflow(load_records(file'))

\* the step appends a record of the given kind for the run that replay holds
AppendsForCurrentRun(kind) ==
    /\ Len(appended') = Len(appended) + 1
    /\ appended'[Len(appended')].event.kind = kind
    /\ IsSome(ReplayedBefore)
    /\ appended'[Len(appended')].event.run_id = Unwrap(ReplayedBefore).run_id

\* the fields of a run that the two approval events leave alone
SameRunAndStep(a, b) == a.run_id = b.run_id /\ a.step_index = b.step_index

\* C29: in replay, an ApprovalRequested for the current run sets the status
\* AwaitingApproval, the pending request, tool and invocation ids, and
\* next_invocation_id = invocation_id + 1; a later ApprovalResolved changes the
\* run only if its request_id is the pending one (then the status is Running on
\* "approved" and Blocked on a denial, and the pending fields are cleared); an
\* ApprovalResolved with another request_id leaves the run unchanged.
C29_ReplayApprovalLifecycle ==
    [][LET ev == appended'[Len(appended')].event
           run == Unwrap(ReplayedBefore)
           after == Unwrap(ReplayedAfter)
       IN /\ AppendsForCurrentRun("ApprovalRequested") =>
               /\ IsSome(ReplayedAfter)
               /\ after.status = "awaiting_approval"
               /\ after.pending_request_id = Some(ev.request_id)
               /\ after.pending_tool_id = Some(ev.tool_id)
               /\ after.pending_invocation_id = Some(ev.invocation_id)
               /\ after.next_invocation_id = ev.invocation_id + 1
               /\ SameRunAndStep(after, run)
          /\ AppendsForCurrentRun("ApprovalResolved") =>
               /\ IsSome(ReplayedAfter)
               /\ IF run.pending_request_id = Some(ev.request_id)
                  THEN /\ after.status = IF ev.decision = "approved"
                                         THEN "running" ELSE "blocked"
                       /\ after.pending_request_id = None
                       /\ after.pending_tool_id = None
                       /\ after.pending_invocation_id = None
                       /\ after.next_invocation_id = run.next_invocation_id
                       /\ SameRunAndStep(after, run)
                  ELSE after = run
          /\ (Len(appended') = Len(appended) + 1 /\ ev.kind = "ApprovalResolved"
              /\ ReplayedAfter # ReplayedBefore) =>
               /\ IsSome(ReplayedBefore)
               /\ run.run_id = ev.run_id
               /\ run.pending_request_id = Some(ev.request_id)]_vars

\* C29 witness: the journal of a run holds an ApprovalRequested, then an
\* ApprovalResolved{approved} with another request id, which left the run
\* awaiting, then the ApprovalResolved{denied} of the pending request
C29_Witness ==
    /\ Len(appended) = 4
    /\ appended[1].event = WorkflowRunStarted(1, DefaultTier)
    /\ appended[2].event = ApprovalRequested(RequestId(1, 1), 1, 1, "scan_repo")
    /\ appended[3].event = ApprovalResolved(RequestId(1, 2), 1, "approved")
    /\ appended[4].event = ApprovalResolved(RequestId(1, 1), 1, "denied")
    /\ replay_latest_workflow(SubSeq(appended, 1, 3)) =
         replay_latest_workflow(SubSeq(appended, 1, 2))
    /\ Unwrap(replay_latest_workflow(SubSeq(appended, 1, 3))).status = "awaiting_approval"
    /\ Unwrap(ReplayedBefore).status = "blocked"
    /\ Unwrap(ReplayedBefore).pending_request_id = None

----------------------------------------------------------------------------
\* C30

\* the run ids of the WorkflowRunStarted events among the records, in order
RunStartedIds(records) ==
    LET started == SelectSeq(records, LAMBDA r : r.event.kind = "WorkflowRunStarted")
    IN [i \in 1..Len(started) |-> started[i].event.run_id]

\* the largest run id of a WorkflowRunStarted among the records, 0 for none
MaxStartedRunId(records) ==
    LET ids == RunStartedIds(records)
    IN IF ids = <<>> THEN 0
       ELSE CHOOSE m \in {ids[i] : i \in 1..Len(ids)} :
                \A i \in 1..Len(ids) : ids[i] <= m

StrictlyIncreasing(ids) == \A i, j \in 1..Len(ids) : i < j => ids[i] < ids[j]

\* the run id a `run` command takes is one above the largest in the journal
NewRunIdIsMaxPlusOne ==
    (pc = "loop" /\ proc.cmd = "run" /\ Len(appended) = proc.base /\ ops # <<>>) =>
        proc.run_id = 1 + MaxStartedRunId(Journal)

\* C30: each new run gets run_id = 1 + the largest run_id of a
\* WorkflowRunStarted in the journal, so over any sequence of run and resume
\* commands the run ids of the WorkflowRunStarted events of the journal, and of
\* those the store has accepted, are strictly increasing: no run id is used
\* for two runs.
C30_RunIdsNeverReused ==
    /\ NewRunIdIsMaxPlusOne
    /\ StrictlyIncreasing(RunStartedIds(Journal))
    /\ StrictlyIncreasing(RunStartedIds(appended))

----------------------------------------------------------------------------
\* C31

\* the paths of a file list
PathsOf(files) == {files[i].path : i \in 1..Len(files)}

\* the step is a SetDiffArtifact that the reducer accepts
AcceptsDiff ==
    /\ nacts' = nacts + 1
    /\ last'.type = "SetArtifact" /\ last'.kind = "diff"
    /\ artifact_is_newer(last'.artifact.run_id, last'.artifact.artifact_id,
                         shell.artifacts["diff"])

\* the selection the claim states for a file list that lacks the selected path
ExpectedSelection(files) ==
    IF \E i \in 1..Len(files) : files[i].status = "Modified"
    THEN Some(files[CHOOSE i \in 1..Len(files) :
                      /\ files[i].status = "Modified"
                      /\ \A j \in 1..(i - 1) : files[j].status # "Modified"].path)
    ELSE IF Len(files) > 0 THEN Some(files[1].path)
    ELSE None

\* C31: after a SetDiffArtifact is accepted whose file list does not contain
\* the selected path, selected_diff_file is the first file with status
\* Modified if there is one, else the first file, else None for an empty list;
\* when the new list contains the selected path the selection is unchanged.
C31_DiffSelectionReconciled ==
    [][AcceptsDiff =>
         LET files == last'.artifact.files
         IN /\ shell'.artifacts["diff"] = Some(last'.artifact)
            /\ IF IsSome(shell.selected_diff_file)
                  /\ Unwrap(shell.selected_diff_file) \in PathsOf(files)
               THEN shell'.selected_diff_file = shell.selected_diff_file
               ELSE shell'.selected_diff_file = ExpectedSelection(files)]_vars

\* C31 witness: b.rs was selected, and a diff of an Added a.rs and a Modified
\* c.rs was accepted: the selection is c.rs
C31_Witness ==
    /\ nacts = 2
    /\ last.type = "SetArtifact" /\ last.kind = "diff"
    /\ last.artifact.files = <<[path |-> "a.rs", status |-> "Added"],
                               [path |-> "c.rs", status |-> "Modified"]>>
    /\ shell.artifacts["diff"] = Some(last.artifact)
    /\ shell.selected_diff_file = Some("c.rs")

----------------------------------------------------------------------------
\* C32

\* the seqs of the entries of a buffer, in order
SeqsOf(buf) == [i \in 1..Len(buf) |-> buf[i].seq]

\* s is the end of t
IsSuffix(s, t) ==
    Len(s) <= Len(t) /\ s = SubSeq(t, Len(t) - Len(s) + 1, Len(t))

\* the entries of the buffer but the last
Front(buf) == SubSeq(buf, 1, Len(buf) - 1)

\* C32: for a LogBuffer of capacity N to which M entries have been appended,
\* the buffer never holds more than N entries; seqs are given 1, 2, 3, ... in
\* append order; once M > N the buffer holds exactly the last N entries, in
\* append order, with seqs M-N+1 .. M.
C32_LogBufferKeepsLastN ==
    [][(nacts' = nacts + 1 /\ last'.type = "AppendLog") =>
         LET N == shell.logs.cap
             M == nacts'
             buf == shell'.logs.buf
         IN /\ Len(buf) <= N
            /\ SeqsOf(buf) = [i \in 1..Len(buf) |-> M - Len(buf) + i]
            /\ M > N => Len(buf) = N
            /\ M <= N => Len(buf) = M
            /\ N > 0 => /\ buf[Len(buf)].message = last'.value
                        /\ IsSuffix(Front(buf), shell.logs.buf)]_vars

----------------------------------------------------------------------------
\* C33

\* the effective persona policy is the defaults of the personality with the
\* overrides applied
PersonaPolicyIsDerived ==
    /\ shell.sm.persona_policy =
         apply_persona_policy_overrides(persona_policy_for(shell.sm.personality),
                                        shell.sm.persona_policy_overrides)
    /\ shell.sm.persona_policy_defaults = persona_policy_for(shell.sm.personality)

\* what SetPersonality and ClearPersonaPolicyOverrides do in a step
PersonaSteps ==
    /\ (nacts' = nacts + 1 /\ last'.type = "SetPersonality") =>
         /\ shell'.sm.personality = last'.personality
         /\ shell'.sm.persona_policy_defaults = persona_policy_for(last'.personality)
         /\ shell'.sm.persona_policy_overrides = shell.sm.persona_policy_overrides
    /\ (nacts' = nacts + 1 /\ last'.type = "ClearPersonaPolicyOverrides") =>
         /\ shell'.sm.personality = shell.sm.personality
         /\ shell'.sm.persona_policy_overrides = NoOverrides
         /\ shell'.sm.persona_policy = persona_policy_for(shell.sm.personality)

\* C33: in every reachable state the effective persona policy equals
\* apply_persona_policy_overrides(persona_policy_for(personality),
\* persona_policy_overrides); SetPersonality replaces the defaults and keeps
\* the overrides, and ClearPersonaPolicyOverrides restores exactly the
\* defaults of the current personality.
C33_PersonaPolicyDerived == []PersonaPolicyIsDerived /\ [][PersonaSteps]_vars

\* C33 witness: with a tier override set under Friendly, the personality was
\* changed to Pragmatic: the defaults are Pragmatic's, the ceiling still Strict
C33_Witness ==
    /\ last.type = "SetPersonality" /\ last.personality = "Pragmatic"
    /\ shell.sm.persona_policy_overrides.tier_ceiling = Some("strict")
    /\ shell.sm.persona_policy_defaults.tier_ceiling = "permissive"
    /\ shell.sm.persona_policy.tier_ceiling = "strict"
    /\ shell.sm.persona_policy.explanation_depth = "Brief"
    /\ nacts >= 2

----------------------------------------------------------------------------
\* C34

Reverse(s) == [i \in 1..Len(s) |-> s[Len(s) + 1 - i]]

\* the records of a list with seq up to s, and those after s, in list order
SeqUpTo(records, s) == SelectSeq(records, LAMBDA r : r.seq <= s)

SeqAfter(records, s) == SelectSeq(records, LAMBDA r : r.seq > s)

\* replaying the records up to s, then the rest on top of the result, gives
\* the replay of all the records
SplitReplayIsFullReplay(records, s) ==
    replay_workflow_from(replay_latest_workflow(SeqUpTo(records, s)),
                         SeqAfter(records, s))
    = replay_latest_workflow(records)

\* C34: replay is a compositional fold: for any list of records with distinct
\* seqs, in whatever order, and any cut seq s, replaying the records with
\* seq > s on top of the replay of the records with seq <= s gives the replay
\* of all records; so a snapshot holding the replay of the prefix up to s,
\* with load_since(s), gives the full replay.
C34_ReplayIsCompositional ==
    \A s \in 0..Len(appended) :
        /\ SplitReplayIsFullReplay(appended, s)
        /\ SplitReplayIsFullReplay(Reverse(appended), s)
        /\ replay_workflow_from(replay_latest_workflow(load_upto(file, s)),
                                load_since(file, s))
           = replay_latest_workflow(load_records(file))

\* C34 witness: a journal of four records cut after the second: the prefix
\* replays to a run awaiting approval, the whole journal to a run that a
\* later WorkflowRunStarted began
C34_Witness ==
    /\ Len(appended) = 4
    /\ appended[2].event.kind = "ApprovalRequested"
    /\ appended[3].event.kind = "WorkflowRunStarted"
    /\ appended[4].event.kind = "ApprovalRequested"
    /\ IsSome(replay_latest_workflow(SeqUpTo(appended, 2)))
    /\ Unwrap(replay_latest_workflow(SeqUpTo(appended, 2))).status = "awaiting_approval"
    /\ Unwrap(replay_latest_workflow(appended)).run_id = 2
    /\ Unwrap(replay_latest_workflow(appended)).status = "awaiting_approval"
    /\ replay_latest_workflow(SeqUpTo(appended, 2)) # replay_latest_workflow(appended)
    /\ SplitReplayIsFullReplay(Reverse(appended), 2)

----------------------------------------------------------------------------
\* C35

\* the last record of the journal is one the running process appended to
\* persist the success of a step: ToolResultRecorded{succeeded}, or the
\* WorkflowStatusChanged{Running} that follows it
StepResultPersisted ==
    /\ pc # "idle" /\ Len(appended) > proc.base
    /\ LET ev == appended[Len(appended)].event
       IN \/ ev.kind = "ToolResultRecorded" /\ ev.status = "succeeded"
          \/ ev.kind = "WorkflowStatusChanged" /\ ev.status = "running"

\* C35: at every point where the driver has persisted a step result, the run
\* replayed from the journal agrees with the driver's counters: the replayed
\* step_index is the index of the next step to execute and the replayed
\* next_invocation_id is the invocation id the driver would give it, also in
\* runs in which approvals were requested (the journal has no torn line here).
C35_ReplayAgreesWithDriver ==
    (StepResultPersisted /\ JournalIntact) =>
        /\ IsSome(FullReplay)
        /\ Unwrap(FullReplay).run_id = proc.run_id
        /\ Unwrap(FullReplay).step_index = proc.step
        /\ Unwrap(FullReplay).next_invocation_id = proc.next_inv

----------------------------------------------------------------------------
\* C36

\* the ToolInvocationIssued events of one run carry strictly increasing
\* invocation ids, in journal order
InvocationIdsIncrease(evs) ==
    \A i, j \in 1..Len(evs) :
        ( /\ i < j
          /\ evs[i].kind = "ToolInvocationIssued"
          /\ evs[j].kind = "ToolInvocationIssued"
          /\ evs[i].run_id = evs[j].run_id )
        => evs[i].invocation_id < evs[j].invocation_id

\* C36: within one run, invocation ids are strictly increasing across the
\* ToolInvocationIssued events of the journal; no invocation id is issued
\* twice, also when the process is killed after ToolInvocationIssued was
\* appended and the run is resumed (the journal has no torn line here).
C36_InvocationIdsNeverReused ==
    JournalIntact => LET evs == Events(Journal) IN InvocationIdsIncrease(evs)

----------------------------------------------------------------------------
\* C37

\* the requirement the gate of execute_workflow computes for a step, from the
\* policy and intent of the command line and the diff artifact the ShellState
\* of the process holds ("none" in a fresh ShellState)
GateRequirement(policy, intent, step, diff) ==
    AssessPolicyGate(policy, DefaultTier, StepRisk(step, diff),
                     StepReason(intent, TemplateSteps[step + 1]), diff).requirement

\* the driver stands in front of the gate of a step, every result so far
\* persisted
AtGate == pc = "loop" /\ ops = <<>> /\ proc.step < NumSteps

\* C37: the gate verdict of a step depends only on the persisted history of
\* the run: where the running driver stands in front of a step, the
\* requirement it computes is the one a driver resumed from the journal as it
\* is now, on the same command line and with a fresh ShellState, computes for
\* the step it resumes at (the journal has no torn line here).
C37_GateVerdictFromHistory ==
    (AtGate /\ JournalIntact) =>
        /\ IsSome(FullReplay)
        /\ Unwrap(FullReplay).step_index = proc.step
        /\ GateRequirement(proc.policy, proc.intent, proc.step, proc.diff)
             = GateRequirement(proc.policy, proc.intent,
                               Unwrap(FullReplay).step_index, "none")

----------------------------------------------------------------------------
\* C38

\* the three pending fields of a replayed run
PendingAllSet(run) ==
    /\ IsSome(run.pending_request_id)
    /\ IsSome(run.pending_tool_id)
    /\ IsSome(run.pending_invocation_id)

PendingAnySet(run) ==
    \/ IsSome(run.pending_request_id)
    \/ IsSome(run.pending_tool_id)
    \/ IsSome(run.pending_invocation_id)

\* AwaitingApproval exactly when a pending field is set, and then all three
PendingMatchesStatus(run) ==
    /\ run.status = "awaiting_approval" => PendingAllSet(run)
    /\ PendingAnySet(run) => run.status = "awaiting_approval"

\* C38: for every journal the driver writes, across kills and resumes, the
\* latest replayed run has status AwaitingApproval exactly when its pending
\* fields are set, and then all three are set; the same holds of the run that
\* resume loads from snapshot and journal, so resume never finds a malformed
\* resume state.
C38_PendingIffAwaiting ==
    /\ IsSome(FullReplay) => PendingMatchesStatus(Unwrap(FullReplay))
    /\ IsSome(LoadedView.run) => PendingMatchesStatus(Unwrap(LoadedView.run))
    /\ ResumeBranch(LoadedView) # "malformed"

\* a journal that replays to a run awaiting approval, left by a killed process
C38_Witness ==
    /\ pc = "idle" /\ nprocs >= 1
    /\ IsSome(FullReplay)
    /\ Unwrap(FullReplay).status = "awaiting_approval"
    /\ PendingAllSet(Unwrap(FullReplay))

----------------------------------------------------------------------------
\* C39

\* C39: immediately after SetJourneyError is applied, in any reachable state,
\* journey_status.state is Failed and the run_id of the stored error equals
\* journey_status.active_run_id.
C39_JourneyErrorFailsActiveRun ==
    last.type = "SetJourneyError" =>
        /\ shell.journey.state = "Failed"
        /\ IsSome(shell.error)
        /\ Unwrap(shell.error).run_id = shell.journey.active_run_id

----------------------------------------------------------------------------
\* C40

\* a terminal status: Completed, Failed, or Blocked for a reason other than
\* "interrupted"
RunTerminal(run) ==
    \/ run.status \in {"completed", "failed"}
    \/ run.status = "blocked" /\ run.blocked_reason # Some("interrupted")

JournalTerminal == IsSome(FullReplay) /\ RunTerminal(Unwrap(FullReplay))

\* every tool result in the journal is a success, no approval was denied and
\* no gate blocked the run
AllSucceededAndPassed(evs) ==
    \A i \in 1..Len(evs) :
        /\ evs[i].kind = "ToolResultRecorded" => evs[i].status = "succeeded"
        /\ evs[i].kind = "ApprovalResolved" => evs[i].decision = "approved"
        /\ evs[i].kind = "WorkflowStatusChanged" => evs[i].status # "blocked"

CompletedAtEnd ==
    LET evs == Events(Journal)
    IN (JournalTerminal /\ AllSucceededAndPassed(evs)) =>
          /\ Unwrap(FullReplay).status = "completed"
          /\ Unwrap(FullReplay).step_index = NumSteps

\* resume_workflow continues the run it loads: it takes neither the "nothing
\* to resume" return nor an error return
ResumeContinues == ResumeBranch(LoadedView) \in {"resume", "approval"}

\* no process is running, the journal holds a run, and its status is not
\* terminal
RunLeftOpen == pc = "idle" /\ IsSome(FullReplay) /\ ~JournalTerminal

\* C40: every workflow run terminates: when the executor and the prompt
\* return and each kill is followed by a resume, a run whose start is in the
\* journal eventually has a terminal status there (Completed, Failed, or
\* Blocked for a reason other than "interrupted"), so a resume never returns
\* without continuing a run that is left open; and when every tool succeeded
\* and every gate was allowed or approved, the terminal status is Completed
\* with step_index 4.
C40_EveryRunTerminates ==
    /\ IsSome(FullReplay) ~> JournalTerminal
    /\ [](RunLeftOpen => ResumeContinues)
    /\ []CompletedAtEnd

====
